---- MODULE Spec2Model ----
(***************************************************************************)
(* Model of the churn / LTV prediction service (Ml2): the artifact loader  *)
(* (src/Ml2/src/model_loader.py), the prediction engine                    *)
(* (src/Ml2/src/prediction_engine.py), the training-time feature           *)
(* engineering (src/Ml2/src/feature_engineering.py) and the Flask           *)
(* application (src/Ml2/app.py).                                            *)
(*                                                                         *)
(* Values.  A Python value held in a record or in a feature vector is a    *)
(* record [k, n, d]: k = "num" is the exact rational n/d (d > 0, lowest    *)
(* terms), k = "str" a non-numeric string, k = "none" Python's None.       *)
(* A mapping (dict) is a TLA+ function whose DOMAIN is its key set.        *)
(***************************************************************************)
EXTENDS Integers, Sequences, FiniteSets, TLC

VARIABLES
    files,          \* the model directory: artifact name -> unpickled content
    models,         \* ModelLoader.models         (dict: model type -> estimator)
    scalers,        \* ModelLoader.scalers        (dict: model type -> scaler)
    feature_names,  \* ModelLoader.feature_names  (dict: model type -> list of names)
    model_version,  \* ModelLoader.model_version
    now,            \* the wall clock read by datetime.now()
    call,           \* the last operation performed: its name, argument and outcome
    prev,           \* the operation before `call`, kept when both are single-record
                    \* predictions (nothing was loaded in between); else "none"
    model_loader,       \* app.py global: TRUE when it holds a ModelLoader, FALSE for None
    prediction_engine,  \* app.py global: TRUE when it holds a PredictionEngine
    got_first_request,  \* whether the before_first_request function has completed
    frames              \* per worker thread: the locals of the prediction it is running

vars == <<files, models, scalers, feature_names, model_version, now, call, prev,
          model_loader, prediction_engine, got_first_request, frames>>

(* the globals of the Flask application, and its worker threads *)
app == <<model_loader, prediction_engine, got_first_request, frames>>

-----------------------------------------------------------------------------
(* Arithmetic helpers *)

Abs(x) == IF x < 0 THEN -x ELSE x

Min(a, b) == IF a <= b THEN a ELSE b

RECURSIVE Gcd(_, _)
Gcd(a, b) == IF b = 0 THEN a ELSE Gcd(b, a % b)

(* the value n/d as a "num" in lowest terms with a positive denominator *)
Num(n, d) ==
    LET s == IF d < 0 THEN -1 ELSE 1
        g == Gcd(Abs(n), Abs(d))
    IN  [k |-> "num", n |-> (s * n) \div g, d |-> (s * d) \div g]

I(n) == [k |-> "num", n |-> n, d |-> 1]

StrVal == [k |-> "str", n |-> 0, d |-> 1]

NoneVal == [k |-> "none", n |-> 0, d |-> 1]

IsNum(v) == v.k = "num"

(* sums, products and comparisons cancel common factors before they      *)
(* multiply, which keeps the intermediate integers small                   *)
RAdd(a, b) ==
    LET g == Gcd(a.d, b.d)
    IN  Num(a.n * (b.d \div g) + b.n * (a.d \div g), (a.d \div g) * b.d)

RSub(a, b) ==
    LET g == Gcd(a.d, b.d)
    IN  Num(a.n * (b.d \div g) - b.n * (a.d \div g), (a.d \div g) * b.d)

RMul(a, b) ==
    LET g1 == Gcd(Abs(a.n), b.d)
        g2 == Gcd(Abs(b.n), a.d)
    IN  Num((a.n \div g1) * (b.n \div g2), (a.d \div g2) * (b.d \div g1))

(* a / b for b # 0 *)
RDiv(a, b) ==
    RMul(a, [k |-> "num", n |-> IF b.n < 0 THEN -b.d ELSE b.d, d |-> Abs(b.n)])

RLe(a, b) ==
    LET g == Gcd(a.d, b.d)
    IN  a.n * (b.d \div g) <= b.n * (a.d \div g)

RLt(a, b) ==
    LET g == Gcd(a.d, b.d)
    IN  a.n * (b.d \div g) < b.n * (a.d \div g)

(* faulty variant: the signed value *)
Signed(a) == a

RAbs(a) == [a EXCEPT !.n = Abs(a.n)]

(* faulty variant: the value is passed on unclipped *)
NoClip(a, lo, hi) == a

(* numpy / pandas clip(lo, hi) *)
RClip(a, lo, hi) == IF RLt(a, lo) THEN lo ELSE IF RLt(hi, a) THEN hi ELSE a

(* round(x * 10^k) / 10^k with ties to the even neighbour, as numpy does for *)
(* a tie that is exactly representable; P10 is 10^k                         *)
RRound(a, P10) ==
    LET g == Gcd(P10, a.d)
        m == a.n * (P10 \div g)
        dd == a.d \div g
        q == m \div dd
        r == m % dd
        up == \/ 2 * r > dd
              \/ (2 * r = dd /\ q % 2 = 1)
    IN  Num(IF up THEN q + 1 ELSE q, P10)

-----------------------------------------------------------------------------
(* Python dicts *)

(* dict.get(key, default) *)
DictGet(dct, key, default) == IF key \in DOMAIN dct THEN dct[key] ELSE default

ModelTypes == {"churn", "ltv"}

(* faulty variant: the read is a setdefault, which enters each key that is absent *)
AfterSetdefault(dct, keys) ==
    [key \in DOMAIN dct \cup keys |-> IF key \in DOMAIN dct THEN dct[key] ELSE NoneVal]

(* the dict after dict.get was called on it for each key of keys: get reads *)
(* an entry or answers its default, and enters nothing                       *)
AfterGet(dct, keys) == dct

(* a dict with no entry: {} *)
EmptyDict == [t \in {} |-> NoneVal]

-----------------------------------------------------------------------------
(* ModelLoader *)

(* the six loads of load_all_models, in program order *)
LoadOrder ==
    << [file |-> "churn_model",    slot |-> "models",        key |-> "churn"],
       [file |-> "churn_scaler",   slot |-> "scalers",       key |-> "churn"],
       [file |-> "churn_features", slot |-> "feature_names", key |-> "churn"],
       [file |-> "ltv_model",      slot |-> "models",        key |-> "ltv"],
       [file |-> "ltv_scaler",     slot |-> "scalers",       key |-> "ltv"],
       [file |-> "ltv_features",   slot |-> "feature_names", key |-> "ltv"] >>

ArtifactNames == {LoadOrder[i].file : i \in DOMAIN LoadOrder}

(* _load_model raises FileNotFoundError when the file does not exist *)
LoadRaises(dir, name) == name \notin DOMAIN dir

(* the number of loads that complete before the first one raises *)
LoadsDone(dir) ==
    LET bad == {i \in DOMAIN LoadOrder : LoadRaises(dir, LoadOrder[i].file)}
    IN  IF bad = {} THEN Len(LoadOrder)
        ELSE (CHOOSE i \in bad : \A j \in bad : i <= j) - 1

(* a slot of the loader after the first `done` loads were assigned into it *)
SlotAfterPartial(dir, old, slot, done) ==
    LET new == {i \in 1..done : LoadOrder[i].slot = slot}
        keys == DOMAIN old \cup {LoadOrder[i].key : i \in new}
    IN  [t \in keys |->
            IF \E i \in new : LoadOrder[i].key = t
            THEN dir[LoadOrder[CHOOSE i \in new : LoadOrder[i].key = t].file]
            ELSE old[t]]

SlotAfter(dir, old, slot) == SlotAfterPartial(dir, old, slot, LoadsDone(dir))

(* faulty variant: True as soon as the churn artifacts are loaded *)
LoadReturnsAfterChurn(dir) == LoadsDone(dir) >= 3

(* load_all_models: True iff no load raised *)
LoadAllReturns(dir) == LoadsDone(dir) = Len(LoadOrder)

LoadAllModels ==
    /\ models' = SlotAfter(files, models, "models")
    /\ scalers' = SlotAfter(files, scalers, "scalers")
    /\ feature_names' = SlotAfter(files, feature_names, "feature_names")
    /\ call' = [op |-> "load_all_models", ret |-> LoadAllReturns(files)]
    /\ prev' = [op |-> "none"]
    /\ UNCHANGED <<files, model_version, now>>
    /\ UNCHANGED app

(* get_model / get_scaler / get_feature_names: dict.get, None when absent *)
Loaded(slot, t) == t \in DOMAIN slot

(* get_model_info()['models_loaded'] *)
ModelsLoaded == DOMAIN models

-----------------------------------------------------------------------------
(* Training-time schema (feature_engineering.py) *)

(* the columns of the training frame, in the order of the module's sample data *)
TrainingColumns ==
    << "user_id", "name", "running_sessions_count", "runs_last_30_days",
       "runs_last_90_days", "distance_last_30_days_km", "distance_last_90_days_km",
       "days_since_last_run", "avg_distance_per_run", "days_on_platform",
       "days_since_last_login", "avg_heart_rate_last_30_days", "peak_heart_rate_max",
       "avg_elevation_gain", "avg_pace_min_per_km", "achievement_count",
       "has_biometrics", "membership_type_id", "race_participation_count",
       "churned", "lifetime_value", "user_created_at" >>

(* the columns calculate_all_features appends, in assignment order *)
DerivedColumns ==
    << "engagement_score", "days_inactive_ratio", "consistency_score",
       "monthly_activity_rate", "distance_trend", "is_premium",
       "activity_level", "pace_category" >>

cols_to_drop == {"user_id", "name", "user_created_at", "churned", "lifetime_value"}

InDrop(c) == c \in cols_to_drop

(* prepare_features_for_training: feature_cols, saved as <type>_features *)
feature_cols(columns) == SelectSeq(columns, LAMBDA c : ~InDrop(c))

TrainedFeatureNames == feature_cols(TrainingColumns \o DerivedColumns)

SeqToSet(s) == {s[i] : i \in DOMAIN s}

(* the input-schema fields of a raw record: the trained columns that are not derived *)
RawFeatureNames == SeqToSet(feature_cols(TrainingColumns))

-----------------------------------------------------------------------------
(* FeatureEngineer, on one row of the frame (a dict of column -> value) *)

(* faulty variant: a zero denominator becomes a month of 30 days *)
ReplaceZeroByMonth(v) == IF v = I(0) THEN I(30) ELSE v

(* Series.replace(0, 1) *)
ReplaceZero(v) == IF v = I(0) THEN I(1) ELSE v

(* pd.cut(x, bins=edges + [inf], labels=labels): bin i is (edges[i], edges[i+1]], *)
(* the last bin (edges[last], inf); NaN for a value in no bin                    *)
Cut(x, edges, labels) ==
    LET n == Len(edges)
        hit == {i \in 1..n :
                    /\ RLt(I(edges[i]), x)
                    /\ (i < n => RLe(x, I(edges[i + 1])))}
    IN  IF hit = {} THEN NoneVal ELSE I(labels[CHOOSE i \in hit : TRUE])

(* faulty variant: every component weighs the same *)
EqualWeights ==
    [runs |-> Num(20, 100), distance |-> Num(20, 100), achievements |-> Num(20, 100),
     biometrics |-> Num(20, 100), races |-> Num(20, 100)]

weights ==
    [runs |-> Num(35, 100), distance |-> Num(25, 100), achievements |-> Num(20, 100),
     biometrics |-> Num(10, 100), races |-> Num(10, 100)]

(* _calculate_engagement_score *)
calculate_engagement_score(row) ==
    LET runs_norm == RClip(RDiv(row["runs_last_90_days"], I(30)), I(0), I(1))
        distance_norm == RClip(RDiv(row["distance_last_90_days_km"], I(500)), I(0), I(1))
        achievements_norm == RClip(RDiv(row["achievement_count"], I(20)), I(0), I(1))
        biometrics_norm == row["has_biometrics"]
        races_norm == RClip(RDiv(row["race_participation_count"], I(10)), I(0), I(1))
        score == RMul(
            RAdd(RAdd(RAdd(RAdd(RMul(runs_norm, weights["runs"]),
                                RMul(distance_norm, weights["distance"])),
                           RMul(achievements_norm, weights["achievements"])),
                      RMul(biometrics_norm, weights["biometrics"])),
                 RMul(races_norm, weights["races"])),
            I(100))
    IN  RRound(score, 100)

(* _calculate_consistency_score *)
calculate_consistency_score(runs_30d, runs_90d) ==
    LET avg_30d == runs_30d
        avg_90d == RDiv(runs_90d, I(3))
        consistency == IF RLt(I(0), avg_90d)
                       THEN RSub(I(1), RDiv(RAbs(RSub(avg_30d, avg_90d)), avg_90d))
                       ELSE I(0)
    IN  RRound(RClip(consistency, I(0), I(1)), 10000)

(* faulty variant: bins closed on the left, [edge, next edge) *)
ActivityLevelLeftClosed(x) ==
    I(Cardinality({e \in {0, 5, 20, 50} : RLe(I(e), x)}))

(* pd.cut(running_sessions_count, bins=[-1, 0, 5, 20, 50, inf], labels=[0..4]) *)
ActivityLevel(x) == Cut(x, << -1, 0, 5, 20, 50 >>, << 0, 1, 2, 3, 4 >>)

(* faulty variant: the labels in ascending order *)
PaceCategoryAscending(x) == Cut(x, << 0, 5, 6, 7, 8 >>, << 0, 1, 2, 3, 4 >>)

(* pd.cut(avg_pace_min_per_km, bins=[0, 5, 6, 7, 8, inf], labels=[4, 3, 2, 1, 0]) *)
PaceCategory(x) == Cut(x, << 0, 5, 6, 7, 8 >>, << 4, 3, 2, 1, 0 >>)

(* the columns calculate_all_features reads *)
ColumnsRead ==
    {"runs_last_90_days", "distance_last_90_days_km", "achievement_count",
     "has_biometrics", "race_participation_count", "days_since_last_run",
     "days_on_platform", "runs_last_30_days", "running_sessions_count",
     "distance_last_30_days_km", "membership_type_id", "avg_pace_min_per_km"}

(* the derived columns of one row, before the integer casts *)
DerivedOf(row) ==
    LET avg_30d == row["distance_last_30_days_km"]
        avg_90d == RDiv(row["distance_last_90_days_km"], I(3))
    IN  [c \in SeqToSet(DerivedColumns) |->
            CASE c = "engagement_score" -> calculate_engagement_score(row)
              [] c = "days_inactive_ratio" ->
                    RClip(RDiv(row["days_since_last_run"],
                               ReplaceZero(row["days_on_platform"])), I(0), I(1))
              [] c = "consistency_score" ->
                    calculate_consistency_score(row["runs_last_30_days"],
                                                row["runs_last_90_days"])
              [] c = "monthly_activity_rate" ->
                    RClip(RDiv(row["running_sessions_count"],
                               ReplaceZero(RDiv(row["days_on_platform"], I(30)))),
                          I(0), I(50))
              [] c = "distance_trend" ->
                    RClip(IF RLt(I(0), avg_90d)
                          THEN RDiv(RSub(avg_30d, avg_90d), avg_90d)
                          ELSE I(0), I(-1), I(1))
              [] c = "is_premium" ->
                    IF RLt(I(1), row["membership_type_id"]) THEN I(1) ELSE I(0)
              [] c = "activity_level" -> ActivityLevel(row["running_sessions_count"])
              [] c = "pace_category" -> PaceCategory(row["avg_pace_min_per_km"])]

(* calculate_all_features raises KeyError on a missing column, TypeError on *)
(* a non-numeric one, and ValueError when astype(int) meets the NaN of a    *)
(* value that fell in no bin                                                 *)
CalcRaises(row) ==
    IF ~(ColumnsRead \subseteq DOMAIN row) THEN "KeyError"
    ELSE IF \E c \in ColumnsRead : ~IsNum(row[c]) THEN "TypeError"
    ELSE IF \/ DerivedOf(row)["activity_level"] = NoneVal
            \/ DerivedOf(row)["pace_category"] = NoneVal THEN "ValueError"
    ELSE ""

(* calculate_all_features: the row with its derived columns added *)
calculate_all_features(row) ==
    [c \in DOMAIN row \cup SeqToSet(DerivedColumns) |->
        IF c \in SeqToSet(DerivedColumns) THEN DerivedOf(row)[c] ELSE row[c]]

-----------------------------------------------------------------------------
(* The unpickled artifacts.                                                *)
(*  estimator: [explains, importances, table]; explains is                 *)
(*     hasattr(model, 'feature_importances_'), table the estimator's       *)
(*     outputs, one of which it returns for each input vector               *)
(*  scaler:    [mean, scale], a fitted StandardScaler                       *)
(*  features:  the list of trained feature names                            *)

IsNaN(v) == v.k = "none"

(* StandardScaler.transform raises ValueError on a value that is not a number, *)
(* on an empty vector, and on a vector of another width than it was fitted on *)
TransformRaises(scaler, X) ==
    \/ Len(X) = 0
    \/ Len(X) # Len(scaler.mean)
    \/ \E i \in DOMAIN X : X[i].k = "str"

(* faulty variant: the vector is handed on unscaled *)
TransformSkipped(scaler, X) == X

(* StandardScaler.transform: (x - mean) / scale per column, NaN kept *)
Transform(scaler, X) ==
    [i \in DOMAIN X |->
        IF IsNaN(X[i]) THEN X[i]
        ELSE RDiv(RSub(X[i], I(scaler.mean[i])), I(scaler.scale[i]))]

RECURSIVE SumNum(_, _)
SumNum(Xs, i) == IF i = 0 THEN 0 ELSE Abs(Xs[i].n) + Abs(Xs[i].d) + SumNum(Xs, i - 1)

(* faulty variant: an estimator whose answer also depends on when it is asked *)
EstimateSeeded(model, Xs) ==
    model.table[((SumNum(Xs, Len(Xs)) + now) % Len(model.table)) + 1]

(* the estimator is a fixed function of its input vector: the entry of its *)
(* table the vector selects                                                 *)
Estimate(model, Xs) == model.table[(SumNum(Xs, Len(Xs)) % Len(model.table)) + 1]

(* the estimator rejects a vector that holds NaN *)
EstimatorRaises(model, Xs) == \E i \in DOMAIN Xs : IsNaN(Xs[i])

(* classifier.predict: the class of larger probability *)
PredictLabel(p) == IF RLt(Num(1, 2), p) THEN 1 ELSE 0

-----------------------------------------------------------------------------
(* PredictionEngine *)

(* A record handed to the engine is [isdict, d]: a mapping with key/value *)
(* function d, or (isdict = FALSE) a value without a get method.           *)
Mapping(d) == [isdict |-> TRUE, d |-> d]

NotMapping == [isdict |-> FALSE, d |-> EmptyDict]

(* _prepare_features: raises TypeError on an unloaded schema (iteration over *)
(* None) and AttributeError on a record without get                         *)
PrepareRaises(fnames, mt, rec) ==
    IF ~Loaded(fnames, mt) THEN "TypeError"
    ELSE IF ~rec.isdict /\ Len(fnames[mt]) > 0 THEN "AttributeError"
    ELSE ""

(* faulty variant: the values of the mapping's keys that are expected, in expected  *)
(* order, with absent names skipped instead of filled with 0                *)
AlignPresentOnly(names, d) ==
    LET present == SelectSeq(names, LAMBDA c : c \in DOMAIN d)
    IN  [i \in DOMAIN present |-> d[present[i]]]

(* _prepare_features: features_dict.get(feature_name, 0) per expected name *)
AlignTo(names, d) == [i \in DOMAIN names |-> DictGet(d, names[i], I(0))]

(* faulty variant: every vector is aligned to the churn feature names *)
PrepareWithChurnNames(fnames, mt, rec) == AlignTo(fnames["churn"], rec.d)

prepare_features(fnames, mt, rec) == AlignTo(fnames[mt], rec.d)

TopN == 10

Score(importance) == RRound(importance, 10000)

(* the entries built by the enumerate(zip(...)) loop, before sorting *)
ImportanceEntries(names, importances, X) ==
    << >> \o [i \in 1..Min(Len(names), Len(importances)) |->
                [feature_name |-> names[i],
                 feature_value |-> X[i],
                 importance_score |-> Score(importances[i]),
                 rank |-> i]]

(* list.sort(key=importance_score, reverse=True): stable, descending. The  *)
(* entry at index i moves behind every entry of larger score and every     *)
(* earlier entry of equal score.                                            *)
SortedPos(es, i) ==
    1 + Cardinality({j \in DOMAIN es :
            \/ RLt(es[i].importance_score, es[j].importance_score)
            \/ (j < i /\ es[j].importance_score = es[i].importance_score)})

(* faulty variant: the list is left in schema order *)
SortSkipped(es) == es

SortDescending(es) ==
    [p \in DOMAIN es |-> es[CHOOSE i \in DOMAIN es : SortedPos(es, i) = p]]

Take(es, n) == SubSeq(es, 1, Min(n, Len(es)))

(* _calculate_feature_importance *)
calculate_feature_importance(model, X, names) ==
    IF ~model.explains THEN <<>>
    ELSE Take(SortDescending(ImportanceEntries(names, model.importances, X)), TopN)

Lib(fn, mt, arg, ret) == [fn |-> fn, mt |-> mt, arg |-> arg, ret |-> ret]

NoResult == [none |-> TRUE]

(* faulty variant: the library calls made so far are made again before the *)
(* exception leaves the call                                                *)
RaisedAfterRetry(exc, trace) ==
    [raised |-> TRUE, exc |-> exc, trace |-> trace \o trace, result |-> NoResult]

Raised(exc, trace) == [raised |-> TRUE, exc |-> exc, trace |-> trace, result |-> NoResult]

Returned(result, trace) == [raised |-> FALSE, exc |-> "", trace |-> trace, result |-> result]

NumThreads == 2

(* the worker threads that serve requests *)
Threads == 1..NumThreads

(* the frame of a thread that runs no prediction *)
Idle ==
    [pc |-> "idle", op |-> "", rec |-> NotMapping, overlapped |-> FALSE,
     X |-> << >>, Xs |-> << >>, y |-> I(0), importance |-> << >>,
     out |-> [raised |-> FALSE, exc |-> "", result |-> NoResult]]

(* faulty variant: strict thresholds *)
RiskLevelStrict(probability) ==
    IF RLt(Num(7, 10), probability) THEN "HIGH"
    ELSE IF RLt(Num(4, 10), probability) THEN "MEDIUM"
    ELSE "LOW"

RiskLevel(probability) ==
    IF RLe(Num(7, 10), probability) THEN "HIGH"
    ELSE IF RLe(Num(4, 10), probability) THEN "MEDIUM"
    ELSE "LOW"

(* faulty variant: the raw output is used unclamped *)
LtvUnclamped(v) == v

LtvClamp(v) == IF RLt(v, I(0)) THEN I(0) ELSE v

LtvCategory(ltv_value) ==
    IF RLe(I(500), ltv_value) THEN "HIGH"
    ELSE IF RLe(I(200), ltv_value) THEN "MEDIUM"
    ELSE IF RLt(I(0), ltv_value) THEN "LOW"
    ELSE "ZERO"

(* predict_churn on record rec at time t: what it returns or raises, and *)
(* the library calls (scaler, estimator) it made on the way                *)
predict_churn(rec, t) ==
    LET pe == PrepareRaises(feature_names, "churn", rec)
        X == prepare_features(feature_names, "churn", rec)
        Xs == Transform(scalers["churn"], X)
        t1 == << Lib("transform", "churn", X, Xs) >>
        model == models["churn"]
        probability == Estimate(model, Xs)
        prediction == PredictLabel(probability)
        t3 == t1 \o << Lib("predict_proba", "churn", Xs, probability),
                       Lib("predict", "churn", Xs, I(prediction)) >>
    IN  IF pe # "" THEN Raised(pe, <<>>)
        ELSE IF ~Loaded(scalers, "churn") THEN Raised("AttributeError", <<>>)
        ELSE IF TransformRaises(scalers["churn"], X)
            THEN Raised("ValueError", << Lib("transform", "churn", X, NoResult) >>)
        ELSE IF ~Loaded(models, "churn") THEN Raised("AttributeError", t1)
        ELSE IF EstimatorRaises(model, Xs)
            THEN Raised("ValueError", t1 \o << Lib("predict_proba", "churn", Xs, NoResult) >>)
        ELSE Returned(
                [prediction |-> prediction,
                 probability |-> RRound(probability, 10000),
                 risk_level |-> RiskLevel(probability),
                 confidence_score |->
                    RRound(IF RLe(RSub(I(1), probability), probability)
                           THEN probability ELSE RSub(I(1), probability), 10000),
                 feature_importance |->
                    calculate_feature_importance(model, X, feature_names["churn"]),
                 model_version |-> model_version,
                 predicted_at |-> t],
                t3)

(* predict_ltv on record rec at time t *)
predict_ltv(rec, t) ==
    LET pe == PrepareRaises(feature_names, "ltv", rec)
        X == prepare_features(feature_names, "ltv", rec)
        Xs == Transform(scalers["ltv"], X)
        t1 == << Lib("transform", "ltv", X, Xs) >>
        model == models["ltv"]
        raw == Estimate(model, Xs)
        ltv_value == LtvClamp(raw)
    IN  IF pe # "" THEN Raised(pe, <<>>)
        ELSE IF ~Loaded(scalers, "ltv") THEN Raised("AttributeError", <<>>)
        ELSE IF TransformRaises(scalers["ltv"], X)
            THEN Raised("ValueError", << Lib("transform", "ltv", X, NoResult) >>)
        ELSE IF ~Loaded(models, "ltv") THEN Raised("AttributeError", t1)
        ELSE IF EstimatorRaises(model, Xs)
            THEN Raised("ValueError", t1 \o << Lib("predict", "ltv", Xs, NoResult) >>)
        ELSE Returned(
                [ltv_value |-> RRound(ltv_value, 100),
                 ltv_category |-> LtvCategory(ltv_value),
                 feature_importance |->
                    calculate_feature_importance(model, X, feature_names["ltv"]),
                 model_version |-> model_version,
                 predicted_at |-> t],
                t1 \o << Lib("predict", "ltv", Xs, raw) >>)

(* One iteration of predict_batch's loop, given what predict_churn (c) and  *)
(* predict_ltv (l) do on the record. The try block runs predict_churn, then *)
(* predict_ltv, then reads user_id for the result entry; the except block  *)
(* reads user_id again for the error entry, outside any try.               *)
BatchEntry(rec, c, l) ==
    LET exc == IF c.raised THEN c.exc
               ELSE IF l.raised THEN l.exc
               ELSE IF ~rec.isdict THEN "AttributeError"
               ELSE ""
        invoked == IF c.raised THEN << "predict_churn" >>
                   ELSE << "predict_churn", "predict_ltv" >>
    IN  IF exc = ""
        THEN [escapes |-> FALSE, invoked |-> invoked,
              entry |-> [user_id |-> DictGet(rec.d, "user_id", NoneVal),
                         churn |-> c.result, ltv |-> l.result]]
        ELSE IF rec.isdict
        THEN [escapes |-> FALSE, invoked |-> invoked,
              entry |-> [user_id |-> DictGet(rec.d, "user_id", NoneVal),
                         error |-> exc]]
        ELSE [escapes |-> TRUE, invoked |-> invoked, entry |-> NoResult]

BatchStep(rec, t) == BatchEntry(rec, predict_churn(rec, t), predict_ltv(rec, t))

(* faulty variant: the loop stops at the first record whose prediction raised *)
CollectUntilError(recs, step) ==
    LET bad == {i \in DOMAIN recs : "error" \in DOMAIN step[i].entry}
        last == IF bad = {} THEN Len(recs)
                ELSE CHOOSE i \in bad : \A j \in bad : i <= j
    IN  [raised |-> FALSE, exc |-> "", invoked |-> [i \in 1..last |-> step[i].invoked],
         result |-> [i \in 1..last |-> step[i].entry]]

(* The loop over the records, step[i] being iteration i: the list of        *)
(* entries, or the exception that leaves the loop at the first iteration    *)
(* whose handler raised.                                                    *)
CollectResults(recs, step) ==
    LET out == {i \in DOMAIN recs : step[i].escapes}
        last == IF out = {} THEN Len(recs)
                ELSE CHOOSE i \in out : \A j \in out : i <= j
        invoked == [i \in 1..last |-> step[i].invoked]
    IN  IF out = {}
        THEN [raised |-> FALSE, exc |-> "", invoked |-> invoked,
              result |-> [i \in DOMAIN recs |-> step[i].entry]]
        ELSE [raised |-> TRUE, exc |-> "AttributeError", invoked |-> invoked,
              result |-> NoResult]

predict_batch(recs, t) ==
    CollectResults(recs, [i \in DOMAIN recs |-> BatchStep(recs[i], t)])

SingleOps == {"predict_churn", "predict_ltv"}

Before == IF call.op \in SingleOps THEN call ELSE [op |-> "none"]

(* the feature names _prepare_features reads from the record for the model types mts *)
NamesRead(mts) ==
    UNION {IF Loaded(feature_names, mt) THEN SeqToSet(feature_names[mt]) ELSE {} :
            mt \in mts}

(* the caller's record once predictions for the model types mts have read it *)
RecordAfter(rec, mts) ==
    IF rec.isdict THEN Mapping(AfterGet(rec.d, NamesRead(mts))) ELSE rec

(* A prediction reaches the loader through get_feature_names, get_scaler    *)
(* and get_model of its model type, and the record through get.             *)
ReadsLoader(mts) ==
    /\ models' = AfterGet(models, mts)
    /\ scalers' = AfterGet(scalers, mts)
    /\ feature_names' = AfterGet(feature_names, mts)
    /\ UNCHANGED <<files, model_version, now>>

PredictChurn(rec) ==
    /\ call' = [op |-> "predict_churn", arg |-> rec, out |-> predict_churn(rec, now),
                after |-> RecordAfter(rec, {"churn"})]
    /\ prev' = Before
    /\ ReadsLoader({"churn"})
    /\ UNCHANGED app

PredictLtv(rec) ==
    /\ call' = [op |-> "predict_ltv", arg |-> rec, out |-> predict_ltv(rec, now),
                after |-> RecordAfter(rec, {"ltv"})]
    /\ prev' = Before
    /\ ReadsLoader({"ltv"})
    /\ UNCHANGED app

PredictBatch(recs) ==
    /\ call' = [op |-> "predict_batch", arg |-> recs, out |-> predict_batch(recs, now),
                after |-> [i \in DOMAIN recs |-> RecordAfter(recs[i], ModelTypes)]]
    /\ prev' = [op |-> "none"]
    /\ ReadsLoader(IF recs = << >> THEN {} ELSE ModelTypes)
    /\ UNCHANGED app

(* get_model, get_scaler, get_feature_names: dict.get(model_type) *)
Getter(name, slot, mt) ==
    [op |-> name, arg |-> mt, ret |-> IF Loaded(slot, mt) THEN slot[mt] ELSE NoneVal]

GetModel(mt) ==
    /\ call' = Getter("get_model", models, mt)
    /\ models' = AfterGet(models, {mt})
    /\ prev' = [op |-> "none"]
    /\ UNCHANGED <<files, scalers, feature_names, model_version, now>>
    /\ UNCHANGED app

GetScaler(mt) ==
    /\ call' = Getter("get_scaler", scalers, mt)
    /\ scalers' = AfterGet(scalers, {mt})
    /\ prev' = [op |-> "none"]
    /\ UNCHANGED <<files, models, feature_names, model_version, now>>
    /\ UNCHANGED app

GetFeatureNames(mt) ==
    /\ call' = Getter("get_feature_names", feature_names, mt)
    /\ feature_names' = AfterGet(feature_names, {mt})
    /\ prev' = [op |-> "none"]
    /\ UNCHANGED <<files, models, scalers, model_version, now>>
    /\ UNCHANGED app

(* len(self.feature_names.get(mt, [])) *)
FeaturesCount(mt) == IF Loaded(feature_names, mt) THEN Len(feature_names[mt]) ELSE 0

get_model_info ==
    [version |-> model_version,
     models_loaded |-> ModelsLoaded,
     churn_features_count |-> FeaturesCount("churn"),
     ltv_features_count |-> FeaturesCount("ltv")]

GetModelInfo ==
    /\ call' = [op |-> "get_model_info", ret |-> get_model_info]
    /\ feature_names' = AfterGet(feature_names, ModelTypes)
    /\ prev' = [op |-> "none"]
    /\ UNCHANGED <<files, models, scalers, model_version, now>>
    /\ UNCHANGED app

MaxTime == 1

(* datetime.now() moves on between two calls, or does not *)
Tick ==
    /\ now < MaxTime
    /\ now' = now + 1
    /\ UNCHANGED <<files, models, scalers, feature_names, model_version, call, prev>>
    /\ UNCHANGED app

-----------------------------------------------------------------------------
(* The serving session: a model directory in which at most one artifact is  *)
(* missing, a fresh ModelLoader, and the engine's operations in any order.  *)

(* a directory holding the six artifacts of one version *)
Directory(cm, cs, cf, lm, ls, lf) ==
    [a \in ArtifactNames |->
        CASE a = "churn_model" -> cm
          [] a = "churn_scaler" -> cs
          [] a = "churn_features" -> cf
          [] a = "ltv_model" -> lm
          [] a = "ltv_scaler" -> ls
          [] a = "ltv_features" -> lf]

Without(dir, missing) == [a \in DOMAIN dir \ missing |-> dir[a]]

(* dir as it is, and dir with any one artifact missing *)
DirConfigs(dir) == {dir} \cup {Without(dir, {a}) : a \in DOMAIN dir}

ServedChurnNames == << "runs_last_90_days", "days_since_last_run", "has_biometrics" >>

ServedLtvNames == << "membership_type_id", "runs_last_90_days" >>

ServedDirectory ==
    Directory(
        [explains |-> TRUE,
         importances |-> << Num(2, 10), Num(5, 10), Num(3, 10) >>,
         table |-> << Num(1, 10), Num(1, 2), Num(4, 5) >>],
        [mean |-> << 10, 5, 0 >>, scale |-> << 4, 2, 1 >>],
        ServedChurnNames,
        [explains |-> FALSE,
         importances |-> << >>,
         table |-> << I(-20), I(150), I(620) >>],
        [mean |-> << 2, 10 >>, scale |-> << 1, 5 >>],
        ServedLtvNames)

(* a dict from a set of <<key, value>> pairs *)
Dict(pairs) ==
    [key \in {kv[1] : kv \in pairs} |-> (CHOOSE kv \in pairs : kv[1] = key)[2]]

GoodRec ==
    Mapping(Dict({ <<"user_id", I(1)>>, <<"name", StrVal>>,
                   <<"runs_last_90_days", I(45)>>, <<"days_since_last_run", I(1)>>,
                   <<"has_biometrics", I(1)>>, <<"membership_type_id", I(2)>> }))

(* a non-numeric membership tier: the LTV scaler raises, the churn path does not *)
BadTierRec ==
    Mapping(Dict({ <<"user_id", I(2)>>, <<"runs_last_90_days", I(9)>>,
                   <<"days_since_last_run", I(30)>>, <<"has_biometrics", I(1)>>,
                   <<"membership_type_id", StrVal>> }))

(* a non-numeric counter: both scalers raise *)
BadRunsRec ==
    Mapping(Dict({ <<"user_id", I(3)>>, <<"runs_last_90_days", StrVal>>,
                   <<"membership_type_id", I(1)>> }))

(* a null recency: the churn scaler passes NaN on and the churn estimator raises *)
NullRec ==
    Mapping(Dict({ <<"user_id", I(4)>>, <<"runs_last_90_days", I(2)>>,
                   <<"days_since_last_run", NoneVal>>, <<"membership_type_id", I(3)>> }))

(* no user_id and no has_biometrics *)
NoIdRec ==
    Mapping(Dict({ <<"runs_last_90_days", I(12)>>, <<"days_since_last_run", I(7)>>,
                   <<"membership_type_id", I(1)>> }))

ServedRecords == {GoodRec, BadRunsRec, NullRec, NotMapping}

BatchRecords == {BadTierRec, NoIdRec, NotMapping}

MaxBatch == 2

SeqsUpTo(S, n) == UNION {[1..k -> S] : k \in 0..n}

FreshLoader ==
    /\ models = EmptyDict
    /\ scalers = EmptyDict
    /\ feature_names = EmptyDict
    /\ model_version = "v1.0.0"
    /\ now = 0
    /\ call = [op |-> "init"]
    /\ prev = [op |-> "none"]
    /\ model_loader = FALSE
    /\ prediction_engine = FALSE
    /\ got_first_request = FALSE
    /\ frames = [t \in Threads |-> Idle]

Init ==
    /\ files \in DirConfigs(ServedDirectory)
    /\ FreshLoader

Next ==
    \/ LoadAllModels
    \/ Tick
    \/ \E rec \in ServedRecords : PredictChurn(rec)
    \/ \E rec \in ServedRecords : PredictLtv(rec)
    \/ \E recs \in SeqsUpTo(BatchRecords, MaxBatch) : PredictBatch(recs)

Spec == Init /\ [][Next]_vars

-----------------------------------------------------------------------------
(* Serving the artifacts the training scripts save: both models are trained *)
(* on feature_cols of the engineered frame, so both feature lists are       *)
(* TrainedFeatureNames. Records are raw records of the input schema.        *)

TrainedDirectory ==
    LET n == Len(TrainedFeatureNames)
    IN  Directory(
            [explains |-> TRUE,
             importances |-> [i \in 1..n |-> Num((i * 7) % 11, 100)],
             table |-> << Num(1, 10), Num(1, 2), Num(4, 5) >>],
            [mean |-> [i \in 1..n |-> i % 4], scale |-> [i \in 1..n |-> 1 + (i % 3)]],
            TrainedFeatureNames,
            [explains |-> TRUE,
             importances |-> [i \in 1..n |-> Num((i * 3) % 7, 50)],
             table |-> << I(-20), I(150), I(620) >>],
            [mean |-> [i \in 1..n |-> i % 5], scale |-> [i \in 1..n |-> 1 + (i % 2)]],
            TrainedFeatureNames)

(* a raw record: user_id and the input-schema fields, in schema order *)
RawRecord(user_id, values) ==
    LET cols == feature_cols(TrainingColumns)
    IN  Mapping([c \in {"user_id"} \cup SeqToSet(cols) |->
                    IF c = "user_id" THEN I(user_id)
                    ELSE values[CHOOSE i \in DOMAIN cols : cols[i] = c]])

(* the three users of the feature-engineering self-test *)
SampleUser1 ==
    RawRecord(1, << I(50), I(15), I(45), I(150), I(450), I(1), I(10), I(365), I(1),
                    I(145), I(180), I(50), I(6), I(15), I(1), I(2), I(5) >>)

SampleUser2 ==
    RawRecord(2, << I(10), I(3), I(9), I(30), I(90), I(30), I(10), I(180), I(15),
                    I(150), I(185), I(30), I(7), I(5), I(1), I(1), I(2) >>)

SampleUser3 ==
    RawRecord(3, << I(2), I(0), I(2), I(0), I(20), I(90), I(10), I(90), I(60),
                    I(0), I(0), I(0), I(0), I(0), I(0), I(1), I(0) >>)

(* the request of the API test script *)
ApiUser ==
    RawRecord(999, << I(50), I(10), I(35), I(120), I(400), I(5), Num(17, 2), I(365),
                      I(2), I(145), I(180), I(50), Num(13, 2), I(15), I(1), I(2), I(5) >>)

(* a new user: every counter 0 but a pace *)
NewUser ==
    RawRecord(5, << I(0), I(0), I(0), I(0), I(0), I(0), I(0), I(0), I(0),
                    I(0), I(0), I(0), I(9), I(0), I(0), I(3), I(0) >>)

RawRecords == {SampleUser1, SampleUser2, SampleUser3, ApiUser, NewUser}

InitTrained ==
    /\ files = TrainedDirectory
    /\ FreshLoader

NextTrained ==
    \/ LoadAllModels
    \/ \E rec \in RawRecords : PredictChurn(rec)
    \/ \E rec \in RawRecords : PredictLtv(rec)

SpecTrained == InitTrained /\ [][NextTrained]_vars

(* the model type a single-record prediction serves *)
TypeOf(op) == IF op = "predict_churn" THEN "churn" ELSE "ltv"

IsSingle == call.op \in SingleOps

(* the aligned vector the last single-record prediction handed to its scaler *)
AlignedX == call.out.trace[1].arg

Aligned == IsSingle /\ Len(call.out.trace) > 0

(* C2: for a raw record of input-schema fields, every derived feature name  *)
(* of the model's trained feature list receives in the aligned vector the   *)
(* value FeatureEngineer computes from that record                          *)
C2_ServingMatchesTraining ==
    (/\ Aligned
     /\ DOMAIN call.arg.d \subseteq RawFeatureNames \cup {"user_id"}
     /\ CalcRaises(call.arg.d) = "") =>
        LET names == feature_names[TypeOf(call.op)]
            engineered == calculate_all_features(call.arg.d)
        IN  \A i \in DOMAIN names :
                names[i] \in SeqToSet(DerivedColumns) => AlignedX[i] = engineered[names[i]]

-----------------------------------------------------------------------------
(* Feature alignment on its own: every expected-name list over a small     *)
(* universe of names, every mapping over some of them and an unexpected key *)

MaxNames == 2

AlignUniverse == {"runs_last_30_days", "runs_last_90_days", "achievement_count"}

Reverse(sq) == [i \in DOMAIN sq |-> sq[Len(sq) + 1 - i]]

(* plain artifacts for expected names `names` (churn) and their reverse (ltv) *)
AlignDirectory(names) ==
    LET sc == [mean |-> [i \in DOMAIN names |-> 0], scale |-> [i \in DOMAIN names |-> 1]]
    IN  Directory([explains |-> FALSE, importances |-> << >>, table |-> << Num(1, 2) >>],
                  sc, names,
                  [explains |-> FALSE, importances |-> << >>, table |-> << I(100) >>],
                  sc, Reverse(names))

(* each key has a value of its own, none of them 0 *)
AlignValues ==
    Dict({ <<"runs_last_30_days", I(11)>>, <<"runs_last_90_days", I(22)>>,
           <<"days_on_platform", I(99)>> })

AlignRecords == {Mapping(Without(AlignValues, gone)) : gone \in SUBSET DOMAIN AlignValues}

InitAlign ==
    /\ \E names \in SeqsUpTo(AlignUniverse, MaxNames) : files = AlignDirectory(names)
    /\ FreshLoader

NextAlign ==
    \/ LoadAllModels
    \/ \E rec \in AlignRecords : PredictChurn(rec)
    \/ \E rec \in AlignRecords : PredictLtv(rec)

SpecAlign == InitAlign /\ [][NextAlign]_vars

(* C1: the aligned vector has one entry per expected name, entry i is the   *)
(* mapping's value for expected name i when that key is present and 0 when  *)
(* it is absent, and the value of a key that is not expected is in no entry *)
C1_AlignedToExpectedNames ==
    Aligned =>
        LET names == feature_names[TypeOf(call.op)]
            d == call.arg.d
        IN  /\ Len(AlignedX) = Len(names)
            /\ \A i \in DOMAIN names :
                /\ names[i] \in DOMAIN d => AlignedX[i] = d[names[i]]
                /\ names[i] \notin DOMAIN d => AlignedX[i] = I(0)
            /\ \A key \in DOMAIN d \ SeqToSet(names) :
                \A i \in DOMAIN AlignedX : AlignedX[i] # d[key]

(* two expected names, the first absent from the mapping and the second     *)
(* present, and a mapping key that is not expected                          *)
C1_Witness ==
    /\ Aligned
    /\ Len(feature_names[TypeOf(call.op)]) = 2
    /\ feature_names[TypeOf(call.op)][1] \notin DOMAIN call.arg.d
    /\ feature_names[TypeOf(call.op)][2] \in DOMAIN call.arg.d
    /\ "days_on_platform" \in DOMAIN call.arg.d
    /\ AlignedX[1] = I(0)

-----------------------------------------------------------------------------
(* Categorisation on its own: estimators that answer every probability and *)
(* every value of a grid around the thresholds                              *)

ProbSteps == 10

LtvSteps == 7

ProbGrid ==
    {Num(k, ProbSteps) : k \in 0..ProbSteps}
        \cup {Num(7, 10), Num(4, 10), Num(399999, 1000000), Num(699999, 1000000),
              Num(69996, 100000), Num(700001, 1000000), Num(400001, 1000000)}

LtvGrid ==
    {I(100 * k - 100) : k \in 0..LtvSteps}
        \cup {I(500), I(200), I(0), Num(1, 100), Num(-1, 100), Num(4, 1000),
              Num(49999, 100), Num(499996, 1000), Num(19999, 100), Num(50001, 100)}

BucketDirectory(p, v) ==
    Directory([explains |-> FALSE, importances |-> << >>, table |-> << p >>],
              [mean |-> << 10, 5, 0 >>, scale |-> << 4, 2, 1 >>],
              ServedChurnNames,
              [explains |-> FALSE, importances |-> << >>, table |-> << v >>],
              [mean |-> << 2, 10 >>, scale |-> << 1, 5 >>],
              ServedLtvNames)

InitBucket ==
    /\ \E p \in ProbGrid, v \in LtvGrid : files = BucketDirectory(p, v)
    /\ FreshLoader

NextBucket ==
    \/ LoadAllModels
    \/ \E rec \in {GoodRec, NoIdRec} : PredictChurn(rec)
    \/ \E rec \in {GoodRec, NoIdRec} : PredictLtv(rec)

SpecBucket == InitBucket /\ [][NextBucket]_vars

ChurnReturned == call.op = "predict_churn" /\ ~call.out.raised

LtvReturned == call.op = "predict_ltv" /\ ~call.out.raised

(* what predict_proba returned to the last predict_churn *)
ModelProbability == call.out.trace[2].ret

(* what predict returned to the last predict_ltv *)
ModelValue == call.out.trace[2].ret

(* C5: risk_level is HIGH iff the model probability p >= 0.7, MEDIUM iff    *)
(* 0.4 <= p < 0.7, LOW iff p < 0.4                                          *)
C5_RiskBuckets ==
    ChurnReturned =>
        LET p == ModelProbability
            risk == call.out.result.risk_level
        IN  /\ risk = "HIGH" <=> RLe(Num(7, 10), p)
            /\ risk = "MEDIUM" <=> (RLe(Num(4, 10), p) /\ RLt(p, Num(7, 10)))
            /\ risk = "LOW" <=> RLt(p, Num(4, 10))

(* a probability of exactly 0.7 reported HIGH *)
C5_Witness ==
    /\ ChurnReturned
    /\ ModelProbability = Num(7, 10)
    /\ call.out.result.risk_level = "HIGH"

-----------------------------------------------------------------------------
(* Feature importance on its own: churn estimators over the first n trained *)
(* feature names, with every importance vector over ImpValues, and          *)
(* estimators that expose no importances                                     *)

NumFeat == 11

(* two importances that round to different scores *)
ImpValues == {Num(12344, 1000000), Num(3, 10)}

ImpDirectory(n, explains, imps) ==
    LET names == SubSeq(TrainedFeatureNames, 1, n)
        sc == [mean |-> [i \in 1..n |-> i % 3], scale |-> [i \in 1..n |-> 1 + (i % 2)]]
    IN  Directory([explains |-> explains, importances |-> imps,
                   table |-> << Num(1, 10), Num(4, 5) >>],
                  sc, names,
                  [explains |-> FALSE, importances |-> << >>, table |-> << I(150) >>],
                  sc, names)

(* schemas of one and two features, of exactly top_n features, and of more *)
InitImp ==
    /\ \E n \in {1, 2, TopN, NumFeat} :
          \/ \E imps \in [1..n -> ImpValues] : files = ImpDirectory(n, TRUE, imps)
          \/ files = ImpDirectory(n, FALSE, << >>)
    /\ FreshLoader

NextImp ==
    \/ LoadAllModels
    \/ PredictChurn(SampleUser1)
    \/ PredictLtv(SampleUser1)

SpecImp == InitImp /\ [][NextImp]_vars

(* the feature-importance list of the last successful single-record prediction *)
Importance == call.out.result.feature_importance

ReturnedNames == {Importance[k].feature_name : k \in DOMAIN Importance}

(* C7: when the model exposes importances the list holds at most 10 entries, *)
(* each for a different feature name of the model's schema with that         *)
(* feature's score, ordered by non-increasing importance_score, and no       *)
(* omitted feature has a strictly larger score than a returned one; when the *)
(* model exposes none the list is empty                                      *)
C7_TopTenByImportance ==
    (IsSingle /\ ~call.out.raised) =>
        LET model == models[TypeOf(call.op)]
            names == feature_names[TypeOf(call.op)]
            scoreOf(i) == RRound(model.importances[i], 10000)
        IN  IF ~model.explains THEN Importance = << >>
            ELSE /\ Len(Importance) = Min(10, Len(names))
                 /\ \A k \in DOMAIN Importance :
                        \E i \in DOMAIN names :
                            /\ Importance[k].feature_name = names[i]
                            /\ Importance[k].importance_score = scoreOf(i)
                 /\ \A k, l \in DOMAIN Importance :
                        k # l => Importance[k].feature_name # Importance[l].feature_name
                 /\ \A k \in DOMAIN Importance :
                        k < Len(Importance) =>
                            RLe(Importance[k + 1].importance_score,
                                Importance[k].importance_score)
                 /\ \A i \in DOMAIN names :
                        names[i] \notin ReturnedNames =>
                            \A k \in DOMAIN Importance :
                                ~RLt(Importance[k].importance_score, scoreOf(i))

(* eleven features of which ten are returned: the second of the schema is  *)
(* left out, and the returned scores are not all equal                      *)
C7_Witness ==
    /\ ChurnReturned
    /\ models["churn"].explains
    /\ Len(feature_names["churn"]) = 11
    /\ Len(Importance) = 10
    /\ feature_names["churn"][2] \notin ReturnedNames
    /\ RLt(Importance[10].importance_score, Importance[1].importance_score)

(* C8: the k-th returned entry has rank k *)
C8_RankIsPosition ==
    (IsSingle /\ ~call.out.raised) =>
        \A k \in DOMAIN Importance : Importance[k].rank = k

-----------------------------------------------------------------------------
(* Claims checked on the serving session (Spec) *)

IsBatch == call.op = "predict_batch"

AllMappings(recs) == \A i \in DOMAIN recs : recs[i].isdict

SuccessKeys == {"user_id", "churn", "ltv"}

ErrorKeys == {"user_id", "error"}

(* whether a prediction of record rec raises in the loader's present state *)
PredictionRaises(rec) == predict_churn(rec, now).raised \/ predict_ltv(rec, now).raised

(* C3: for a list of mapping records predict_batch returns one entry per    *)
(* record, in input order; entry i carries record i's user_id (None when    *)
(* absent) and is an error entry exactly when a prediction of record i      *)
(* raises and a churn/ltv pair otherwise, also after an earlier error entry *)
C3_BatchIndexAligned ==
    (IsBatch /\ AllMappings(call.arg)) =>
        /\ ~call.out.raised
        /\ Len(call.out.result) = Len(call.arg)
        /\ \A i \in DOMAIN call.arg :
            LET e == call.out.result[i]
                rec == call.arg[i]
            IN  /\ e.user_id = DictGet(rec.d, "user_id", NoneVal)
                /\ DOMAIN e \in {SuccessKeys, ErrorKeys}
                /\ (DOMAIN e = ErrorKeys) <=> PredictionRaises(rec)
                /\ DOMAIN e = SuccessKeys =>
                    /\ e.churn = predict_churn(rec, e.churn.predicted_at).result
                    /\ e.ltv = predict_ltv(rec, e.ltv.predicted_at).result

(* a batch whose first record failed and whose second record, without a     *)
(* user_id, was still predicted                                             *)
C3_Witness ==
    /\ IsBatch
    /\ AllMappings(call.arg)
    /\ Len(call.arg) = 2
    /\ ~call.out.raised
    /\ DOMAIN call.out.result[1] = ErrorKeys
    /\ DOMAIN call.out.result[2] = SuccessKeys
    /\ call.out.result[2].user_id = NoneVal

(* C4: predict_batch returns normally with one entry per record for every   *)
(* list of records, records that are not mappings included                  *)
C4_BatchNeverRaises ==
    IsBatch =>
        /\ ~call.out.raised
        /\ Len(call.out.result) = Len(call.arg)

RepeatedCall ==
    /\ prev.op \in SingleOps
    /\ call.op = prev.op
    /\ call.arg = prev.arg
    /\ ~prev.out.raised
    /\ ~call.out.raised

WithoutTimestamp(result) == [f \in DOMAIN result \ {"predicted_at"} |-> result[f]]

C10_NoPartialLoad ==
    (call.op = "load_all_models" /\ ~call.ret) =>
        /\ DOMAIN models = {}
        /\ DOMAIN scalers = {}
        /\ DOMAIN feature_names = {}
        /\ ModelsLoaded = {}

-----------------------------------------------------------------------------
(* The Flask application (app.py).  A request is answered in two steps: the *)
(* function registered with before_first_request runs until it has once     *)
(* returned normally, then the endpoint's handler runs.  An answer is the    *)
(* record [op = "request", endpoint, arg, engine, status, payload], engine   *)
(* being the calls the handler made on the prediction engine, in order.      *)

PredictionEndpoints == {"/predict/churn", "/predict/ltv", "/predict/all", "/predict/batch"}

(* faulty variant: initialize goes on to create the engine whatever the load returned *)
InitializeIgnoresLoad(success) == ""

(* initialize: the exception it raises for load_all_models' return value, *)
(* "" when it raises none                                                  *)
InitializeRaises(success) == IF ~success THEN "Failed to load models" ELSE ""

Reply(status, payload, engine) == [status |-> status, payload |-> payload, engine |-> engine]

Answer(ep, body, r) ==
    [op |-> "request", endpoint |-> ep, arg |-> body,
     engine |-> r.engine, status |-> r.status, payload |-> r.payload]

(* one call of the handler on the engine *)
Invocation(op, arg, out) == [op |-> op, arg |-> arg, out |-> out]

NotInitialized == Reply(503, [error |-> "Service not initialized"], << >>)

Failure(exc, engine) == Reply(500, [success |-> FALSE, error |-> exc], engine)

(* `not request.json`: no body, or an empty object *)
Falsy(features) == features.isdict /\ DOMAIN features.d = {}

(* the checks of a single-record handler before it calls the engine: the  *)
(* reply they end in, or status 0 when they pass.  A body that is a JSON  *)
(* number makes `'user_id' not in features` raise TypeError.              *)
Validate(features) ==
    IF Falsy(features) THEN Reply(400, [error |-> "No data provided"], << >>)
    ELSE IF ~features.isdict THEN Failure("TypeError", << >>)
    ELSE IF "user_id" \notin DOMAIN features.d
        THEN Reply(400, [error |-> "user_id is required"], << >>)
    ELSE Reply(0, [error |-> ""], << >>)

(* /predict/churn and /predict/ltv after validation, given the engine call inv *)
SingleReply(features, inv) ==
    IF inv.out.raised THEN Failure(inv.out.exc, << inv >>)
    ELSE Reply(200, [success |-> TRUE, user_id |-> features.d["user_id"],
                     prediction |-> inv.out.result], << inv >>)

(* /predict/all after validation: predict_churn, then predict_ltv *)
AllReply(features, c, l) ==
    IF c.out.raised THEN Failure(c.out.exc, << c >>)
    ELSE IF l.out.raised THEN Failure(l.out.exc, << c, l >>)
    ELSE Reply(200, [success |-> TRUE, user_id |-> features.d["user_id"],
                     churn |-> c.out.result, ltv |-> l.out.result], << c, l >>)

(* a /predict/batch body: no 'users' key, a 'users' that is no list, or a list *)
NoUsersBody == [users |-> "absent", list |-> << >>]

UsersNotListBody == [users |-> "notlist", list |-> << >>]

UsersBody(recs) == [users |-> "list", list |-> recs]

BatchReply(inv) ==
    IF inv.out.raised THEN Failure(inv.out.exc, << inv >>)
    ELSE Reply(200, [success |-> TRUE, count |-> Len(inv.out.result),
                     predictions |-> inv.out.result], << inv >>)

batch_endpoint(body, t) ==
    IF ~prediction_engine THEN NotInitialized
    ELSE IF body.users = "absent" THEN Reply(400, [error |-> "No users data provided"], << >>)
    ELSE IF body.users = "notlist" THEN Reply(400, [error |-> "users must be a list"], << >>)
    ELSE BatchReply(Invocation("predict_batch", body.list, predict_batch(body.list, t)))

single_endpoint(ep, features, t) ==
    IF ~prediction_engine THEN NotInitialized
    ELSE IF Validate(features).status # 0 THEN Validate(features)
    ELSE IF ep = "/predict/churn"
        THEN SingleReply(features,
                Invocation("predict_churn", features, predict_churn(features, t)))
    ELSE IF ep = "/predict/ltv"
        THEN SingleReply(features,
                Invocation("predict_ltv", features, predict_ltv(features, t)))
    ELSE AllReply(features,
                Invocation("predict_churn", features, predict_churn(features, t)),
                Invocation("predict_ltv", features, predict_ltv(features, t)))

(* /models/info: the loader's description, unless no loader was ever made *)
models_info ==
    IF ~model_loader THEN Reply(503, [error |-> "Models not loaded"], << >>)
    ELSE Reply(200, get_model_info, << >>)

Handler(ep, body, t) ==
    IF ep = "/models/info" THEN models_info
    ELSE IF ep = "/predict/batch" THEN batch_endpoint(body, t)
    ELSE single_endpoint(ep, body, t)

(* faulty variant: the first request counts as served even when initialize raised *)
FirstRequestDoneAlways(exc) == TRUE

(* the application has got its first request once every before_first_request *)
(* function has returned; an exception leaves it as it was                   *)
FirstRequestDone(exc) == exc = ""

(* The first step of a request while initialize has not yet returned       *)
(* normally: a new ModelLoader, load_all_models, and the engine when the    *)
(* load succeeded.  When initialize raises, the request is answered with    *)
(* the server error and its handler does not run; initialize runs again     *)
(* with the next request.                                                   *)
BeforeFirstRequest(ep, body) ==
    LET success == LoadAllReturns(files)
        exc == InitializeRaises(success)
        outcome == [load |-> success, raised |-> exc # "", exc |-> exc]
    IN  /\ ~got_first_request
        /\ model_loader' = TRUE
        /\ models' = SlotAfter(files, EmptyDict, "models")
        /\ scalers' = SlotAfter(files, EmptyDict, "scalers")
        /\ feature_names' = SlotAfter(files, EmptyDict, "feature_names")
        /\ prediction_engine' = IF exc = "" THEN TRUE ELSE prediction_engine
        /\ got_first_request' = FirstRequestDone(exc)
        /\ call' = IF exc = ""
                   THEN [op |-> "initialize", endpoint |-> ep, arg |-> body,
                         initialize |-> outcome]
                   ELSE [op |-> "request", endpoint |-> ep, arg |-> body,
                         engine |-> << >>, status |-> 500,
                         payload |-> [error |-> "Internal server error"],
                         initialize |-> outcome]
        /\ prev' = [op |-> "none"]
        /\ UNCHANGED <<files, model_version, now, frames>>

(* the endpoint's handler, for the request that ran initialize or a later one *)
Dispatch(ep, body) ==
    /\ got_first_request
    /\ call.op = "initialize" => (ep = call.endpoint /\ body = call.arg)
    /\ call' = Answer(ep, body, Handler(ep, body, now))
    /\ prev' = [op |-> "none"]
    /\ UNCHANGED <<files, models, scalers, feature_names, model_version, now>>
    /\ UNCHANGED app

(* a body with no key at all *)
EmptyBody == Mapping(EmptyDict)

SingleBodies == {GoodRec, BadRunsRec, NoIdRec, EmptyBody, NotMapping}

BatchBodies ==
    {NoUsersBody, UsersNotListBody}
        \cup {UsersBody(recs) : recs \in SeqsUpTo({GoodRec, BadTierRec}, MaxBatch)}

Requests ==
    {<<ep, body>> : ep \in PredictionEndpoints \ {"/predict/batch"}, body \in SingleBodies}
        \cup {<<"/predict/batch", body>> : body \in BatchBodies}
        \cup {<<"/models/info", EmptyBody>>}

InitApp ==
    /\ files \in DirConfigs(ServedDirectory)
    /\ FreshLoader

NextApp ==
    \/ \E rq \in Requests : BeforeFirstRequest(rq[1], rq[2])
    \/ \E rq \in Requests : Dispatch(rq[1], rq[2])
    \/ Tick

SpecApp == InitApp /\ [][NextApp]_vars

(* the outcome of the last run of initialize, when the last step ran it *)
Initialized == "initialize" \in DOMAIN call

(* C11: load_all_models returns True exactly when all six artifacts of the  *)
(* configured version are present; when one is missing it returns False,    *)
(* the exception initialize raises is its own and not one that escaped the  *)
(* load, and no prediction engine is created                                *)
C11_LoadOutcome ==
    Initialized =>
        LET r == call.initialize
        IN  /\ r.load <=> (ArtifactNames \subseteq DOMAIN files)
            /\ r.load => (~r.raised /\ prediction_engine)
            /\ ~r.load =>
                /\ r.raised
                /\ r.exc = "Failed to load models"
                /\ ~prediction_engine
                /\ model_loader

(* a directory without the last artifact loaded: initialize raised after  *)
(* five artifacts were assigned, and no engine exists                      *)
C11_Witness ==
    /\ Initialized
    /\ "ltv_features" \notin DOMAIN files
    /\ ~call.initialize.load
    /\ call.initialize.raised
    /\ ~prediction_engine
    /\ Loaded(models, "ltv")

IsRequest == call.op = "request"

(* load_all_models has returned True on the loader the application holds *)
LoadSucceeded ==
    /\ model_loader
    /\ LoadAllReturns(files)
    /\ \A t \in ModelTypes :
        Loaded(models, t) /\ Loaded(scalers, t) /\ Loaded(feature_names, t)

(* C12 as stated: a prediction request is answered with a prediction, or    *)
(* with a call of the engine, only after load_all_models returned success,  *)
(* and a request answered while the engine is not initialized gets          *)
(* 'Service not initialized' with status 503                                *)
C12_BarrierAnswers503 ==
    IsRequest =>
        /\ (call.engine # << >> \/ call.status = 200) => LoadSucceeded
        /\ ~prediction_engine =>
            /\ call.engine = << >>
            /\ call.status = 503
            /\ call.payload = [error |-> "Service not initialized"]

(* C12 amended: a prediction request is answered with a prediction, or with *)
(* a call of the engine, only after load_all_models returned success; a     *)
(* request answered while the engine is not initialized is refused with an  *)
(* error status (500 when initialize raised, 503 from the handler) and no   *)
(* call of the engine                                                        *)
C12_BarrierRefuses ==
    IsRequest =>
        /\ (call.engine # << >> \/ call.status = 200) => LoadSucceeded
        /\ ~prediction_engine =>
            /\ call.engine = << >>
            /\ call.status \in {500, 503}
            /\ "prediction" \notin DOMAIN call.payload
            /\ "predictions" \notin DOMAIN call.payload

(* a churn request refused while an artifact is missing *)
C12_Witness ==
    /\ IsRequest
    /\ call.endpoint = "/predict/churn"
    /\ call.arg = GoodRec
    /\ ~prediction_engine
    /\ ~LoadAllReturns(files)
    /\ call.status = 500

-----------------------------------------------------------------------------
(* The loader and the engine used after a load, with the loader's getters *)

(* the model types asked of a getter: the two that exist and one that does not *)
AskedTypes == ModelTypes \cup {"revenue"}

InitReadOnly ==
    /\ files \in DirConfigs(ServedDirectory)
    /\ FreshLoader

NextReadOnly ==
    \/ LoadAllModels
    \/ \E rec \in ServedRecords : PredictChurn(rec)
    \/ \E rec \in ServedRecords : PredictLtv(rec)
    \/ \E recs \in SeqsUpTo(BatchRecords, 1) : PredictBatch(recs)
    \/ \E mt \in AskedTypes : GetModel(mt)
    \/ \E mt \in AskedTypes : GetScaler(mt)
    \/ \E mt \in AskedTypes : GetFeatureNames(mt)
    \/ GetModelInfo

SpecReadOnly == InitReadOnly /\ [][NextReadOnly]_vars

ReadingOps ==
    {"predict_churn", "predict_ltv", "predict_batch",
     "get_model", "get_scaler", "get_feature_names", "get_model_info"}

(* C13: a prediction or a getter call, successful or failing, leaves the    *)
(* loader's models, scalers, feature_names and model_version as they were,  *)
(* and a prediction leaves the record(s) it was given as they were          *)
C13_ArtifactsReadOnly ==
    [][call'.op \in ReadingOps =>
        /\ models' = models
        /\ scalers' = scalers
        /\ feature_names' = feature_names
        /\ model_version' = model_version
        /\ "after" \in DOMAIN call' => call'.after = call'.arg]_vars

(* after a successful load: a churn prediction that raised, on a mapping   *)
(* that lacks a feature name the schema expects                             *)
C13_Witness ==
    /\ call.op = "predict_churn"
    /\ call.out.raised
    /\ call.arg.isdict
    /\ DOMAIN models = ModelTypes
    /\ "has_biometrics" \in SeqToSet(feature_names["churn"])
    /\ "has_biometrics" \notin DOMAIN call.arg.d
    /\ call.after = call.arg

-----------------------------------------------------------------------------
(* Concurrent requests. The engine holds no lock: worker threads run        *)
(* predict_churn and predict_ltv on the one engine, each statement of one   *)
(* thread interleaved with the statements of the others. A frame holds the  *)
(* locals of the call a thread is running.                                  *)

ConcurrentRecords == {GoodRec, NullRec}

(* the loader's state the statements of a prediction leave alone *)
loader == <<files, models, scalers, feature_names, model_version,
            model_loader, prediction_engine, got_first_request>>

Finished(f, out) == [f EXCEPT !.pc = "done", !.out = out]

(* the exception leaves the try block of the call: logged and raised again *)
Fails(f, exc) == Finished(f, [raised |-> TRUE, exc |-> exc, result |-> NoResult])

(* faulty variant: the vector is kept in one place for all threads *)
VectorOfFirst(t) == frames[1].X

(* the vector X of thread t's call, a local of that call *)
VectorOf(t) == frames[t].X

(* the threads whose call has begun and not ended *)
InFlight == {u \in Threads : frames[u].pc \notin {"idle", "done"}}

(* a handler calls the engine; overlapped records, for the calls in flight *)
(* and for the new one, that they run at the same time                     *)
Start(t, op, rec) ==
    /\ prediction_engine
    /\ frames[t].pc = "idle"
    /\ frames' = [u \in Threads |->
            IF u = t
            THEN [Idle EXCEPT !.pc = "prepare", !.op = op, !.rec = rec,
                              !.overlapped = InFlight # {}]
            ELSE IF u \in InFlight THEN [frames[u] EXCEPT !.overlapped = TRUE]
            ELSE frames[u]]
    /\ UNCHANGED <<loader, now, call, prev>>

(* X = self._prepare_features(features_dict, model_type) *)
StepPrepare(t) ==
    /\ frames[t].pc = "prepare"
    /\ LET f == frames[t]
           pe == PrepareRaises(feature_names, TypeOf(f.op), f.rec)
       IN  frames' = [frames EXCEPT ![t] =
                IF pe # "" THEN Fails(f, pe)
                ELSE [f EXCEPT !.pc = "scale",
                               !.X = prepare_features(feature_names, TypeOf(f.op), f.rec)]]
    /\ UNCHANGED <<loader, now, call, prev>>

ScaleStep(f, mt, X) ==
    IF ~Loaded(scalers, mt) THEN Fails(f, "AttributeError")
    ELSE IF TransformRaises(scalers[mt], X) THEN Fails(f, "ValueError")
    ELSE [f EXCEPT !.pc = "infer", !.Xs = Transform(scalers[mt], X)]

(* scaler = get_scaler(model_type); X_scaled = scaler.transform(X) *)
StepScale(t) ==
    /\ frames[t].pc = "scale"
    /\ frames' = [frames EXCEPT ![t] = ScaleStep(frames[t], TypeOf(frames[t].op), VectorOf(t))]
    /\ UNCHANGED <<loader, now, call, prev>>

InferStep(f, mt) ==
    IF ~Loaded(models, mt) THEN Fails(f, "AttributeError")
    ELSE IF EstimatorRaises(models[mt], f.Xs) THEN Fails(f, "ValueError")
    ELSE [f EXCEPT !.pc = "importance", !.y = Estimate(models[mt], f.Xs)]

(* model = get_model(model_type); predict_proba and predict, or predict *)
StepInfer(t) ==
    /\ frames[t].pc = "infer"
    /\ frames' = [frames EXCEPT ![t] = InferStep(frames[t], TypeOf(frames[t].op))]
    /\ UNCHANGED <<loader, now, call, prev>>

ImportanceStep(f, mt, X) ==
    [f EXCEPT !.pc = "result",
              !.importance = calculate_feature_importance(models[mt], X, feature_names[mt])]

(* feature_importance = self._calculate_feature_importance(model, X, model_type) *)
StepImportance(t) ==
    /\ frames[t].pc = "importance"
    /\ frames' = [frames EXCEPT ![t] =
            ImportanceStep(frames[t], TypeOf(frames[t].op), VectorOf(t))]
    /\ UNCHANGED <<loader, now, call, prev>>

ChurnResult(probability, importance, t) ==
    [prediction |-> PredictLabel(probability),
     probability |-> RRound(probability, 10000),
     risk_level |-> RiskLevel(probability),
     confidence_score |->
        RRound(IF RLe(RSub(I(1), probability), probability)
               THEN probability ELSE RSub(I(1), probability), 10000),
     feature_importance |-> importance,
     model_version |-> model_version,
     predicted_at |-> t]

LtvResult(raw, importance, t) ==
    [ltv_value |-> RRound(LtvClamp(raw), 100),
     ltv_category |-> LtvCategory(LtvClamp(raw)),
     feature_importance |-> importance,
     model_version |-> model_version,
     predicted_at |-> t]

ResultStep(f, t) ==
    Finished(f, [raised |-> FALSE, exc |-> "",
                 result |-> IF f.op = "predict_churn"
                            THEN ChurnResult(f.y, f.importance, t)
                            ELSE LtvResult(f.y, f.importance, t)])

(* result = {...}; return result *)
StepResult(t) ==
    /\ frames[t].pc = "result"
    /\ frames' = [frames EXCEPT ![t] = ResultStep(frames[t], now)]
    /\ UNCHANGED <<loader, now, call, prev>>

(* the handler has answered; the thread takes the next request *)
Finish(t) ==
    /\ frames[t].pc = "done"
    /\ frames' = [frames EXCEPT ![t] = Idle]
    /\ UNCHANGED <<loader, now, call, prev>>

(* the state initialize leaves when every artifact loaded *)
InitConcurrent ==
    /\ files = ServedDirectory
    /\ models = SlotAfter(files, EmptyDict, "models")
    /\ scalers = SlotAfter(files, EmptyDict, "scalers")
    /\ feature_names = SlotAfter(files, EmptyDict, "feature_names")
    /\ model_version = "v1.0.0"
    /\ now = 0
    /\ call = [op |-> "initialize"]
    /\ prev = [op |-> "none"]
    /\ model_loader = TRUE
    /\ prediction_engine = TRUE
    /\ got_first_request = TRUE
    /\ frames = [t \in Threads |-> Idle]

NextConcurrent ==
    \/ \E t \in Threads, op \in SingleOps, rec \in ConcurrentRecords : Start(t, op, rec)
    \/ \E t \in Threads : StepPrepare(t)
    \/ \E t \in Threads : StepScale(t)
    \/ \E t \in Threads : StepInfer(t)
    \/ \E t \in Threads : StepImportance(t)
    \/ \E t \in Threads : StepResult(t)
    \/ \E t \in Threads : Finish(t)
    \/ Tick

SpecConcurrent == InitConcurrent /\ [][NextConcurrent]_vars

(* what the call of frame f does when it runs with no other call in flight *)
Alone(f) ==
    IF f.op = "predict_churn" THEN predict_churn(f.rec, f.out.result.predicted_at)
    ELSE predict_ltv(f.rec, f.out.result.predicted_at)

AloneRaises(f) ==
    IF f.op = "predict_churn" THEN predict_churn(f.rec, now) ELSE predict_ltv(f.rec, now)

(* C14: whatever the interleaving of the calls in flight on the loaded     *)
(* engine, a call that has ended has raised or returned exactly what the   *)
(* same call on the same record does when it runs alone                     *)
C14_SameAsAlone ==
    \A t \in Threads :
        frames[t].pc = "done" =>
            IF frames[t].out.raised
            THEN /\ AloneRaises(frames[t]).raised
                 /\ AloneRaises(frames[t]).exc = frames[t].out.exc
            ELSE /\ ~Alone(frames[t]).raised
                 /\ Alone(frames[t]).result = frames[t].out.result

(* thread 2 has returned a churn prediction that ran while another call   *)
(* was in flight, and thread 1, whose LTV prediction on another record     *)
(* also overlapped, is between its scaling and its inference               *)
C14_Witness ==
    /\ frames[2].pc = "done"
    /\ frames[2].op = "predict_churn"
    /\ frames[2].overlapped
    /\ ~frames[2].out.raised
    /\ frames[1].pc = "infer"
    /\ frames[1].op = "predict_ltv"
    /\ frames[1].overlapped
    /\ frames[1].rec # frames[2].rec

-----------------------------------------------------------------------------
(* Failures of the scaler and of the estimator *)

LibraryCalls == {"transform", "predict_proba", "predict"}

(* the last library call of the prediction raised *)
LibraryFailed(out) ==
    /\ out.trace # << >>
    /\ out.trace[Len(out.trace)].ret = NoResult

Invocations(out, fn) == Cardinality({i \in DOMAIN out.trace : out.trace[i].fn = fn})

(* C15: in predict_churn and predict_ltv each of scaler.transform,          *)
(* predict_proba and predict is invoked at most once and nothing is invoked *)
(* after a call that raised; when the scaler or the estimator raised, its   *)
(* exception (ValueError) is what the caller gets, and no result            *)
C15_FailurePropagated ==
    call.op \in SingleOps =>
        /\ \A fn \in LibraryCalls : Invocations(call.out, fn) <= 1
        /\ \A i \in DOMAIN call.out.trace :
                i < Len(call.out.trace) => call.out.trace[i].ret # NoResult
        /\ LibraryFailed(call.out) =>
                /\ call.out.raised
                /\ call.out.exc = "ValueError"
                /\ call.out.result = NoResult

(* a churn prediction whose scaler returned and whose predict_proba raised *)
C15_Witness ==
    /\ call.op = "predict_churn"
    /\ Len(call.out.trace) = 2
    /\ call.out.trace[1].fn = "transform"
    /\ call.out.trace[1].ret # NoResult
    /\ call.out.trace[2].fn = "predict_proba"
    /\ LibraryFailed(call.out)
    /\ call.out.raised

-----------------------------------------------------------------------------
(* The two schemas *)

(* what the estimator of model type mt returns to library call fn *)
EstimatorReturns(fn, mt, Xs) ==
    IF fn = "predict" /\ mt = "churn" THEN I(PredictLabel(Estimate(models[mt], Xs)))
    ELSE Estimate(models[mt], Xs)

(* The library calls of one prediction of model type mt on record rec stay  *)
(* within mt: the scaler is handed the record aligned to mt's feature       *)
(* names and is mt's scaler, the estimator is handed what that scaler       *)
(* returned and is mt's estimator, and the features reported are mt's.      *)
Isolated(mt, rec, out) ==
    /\ \A i \in DOMAIN out.trace : out.trace[i].mt = mt
    /\ out.trace # << >> =>
        /\ out.trace[1].fn = "transform"
        /\ out.trace[1].arg = AlignTo(feature_names[mt], rec.d)
        /\ Len(out.trace[1].arg) = Len(feature_names[mt])
        /\ out.trace[1].ret # NoResult =>
                out.trace[1].ret = Transform(scalers[mt], out.trace[1].arg)
    /\ \A i \in DOMAIN out.trace : i > 1 =>
        /\ out.trace[i].fn \in {"predict_proba", "predict"}
        /\ out.trace[i].arg = out.trace[1].ret
        /\ out.trace[i].ret # NoResult =>
                out.trace[i].ret = EstimatorReturns(out.trace[i].fn, mt, out.trace[i].arg)
    /\ ~out.raised =>
        \A i \in DOMAIN out.result.feature_importance :
            out.result.feature_importance[i].feature_name \in SeqToSet(feature_names[mt])

(* the entry of a batch for rec holds what the two predictions on rec return *)
BatchIsolated(rec, entry, t) ==
    /\ Isolated("churn", rec, predict_churn(rec, t))
    /\ Isolated("ltv", rec, predict_ltv(rec, t))
    /\ "churn" \in DOMAIN entry =>
        /\ WithoutTimestamp(entry.churn) = WithoutTimestamp(predict_churn(rec, t).result)
        /\ WithoutTimestamp(entry.ltv) = WithoutTimestamp(predict_ltv(rec, t).result)

InvocationIsolated(inv, t) ==
    IF inv.op \in SingleOps THEN Isolated(TypeOf(inv.op), inv.arg, inv.out)
    ELSE inv.out.raised
            \/ \A i \in DOMAIN inv.arg : BatchIsolated(inv.arg[i], inv.out.result[i], t)

(* C16: every call a prediction endpoint makes on the engine keeps to one  *)
(* schema: predict_churn uses the churn names, scaler and estimator only,  *)
(* predict_ltv the ltv ones, and the vector given to a scaler and then to  *)
(* its estimator is the record aligned to that model's names, also when    *)
(* /predict/all or predict_batch run both predictions on one record        *)
C16_SchemaIsolation ==
    call.op = "request" =>
        \A i \in DOMAIN call.engine : InvocationIsolated(call.engine[i], now)

(* /predict/all answered with both predictions of one record, whose two    *)
(* vectors differ in width                                                  *)
C16_Witness ==
    /\ call.op = "request"
    /\ call.endpoint = "/predict/all"
    /\ call.status = 200
    /\ Len(call.engine) = 2
    /\ call.engine[1].arg = call.engine[2].arg
    /\ Len(call.engine[1].out.trace[1].arg) = Len(ServedChurnNames)
    /\ Len(call.engine[2].out.trace[1].arg) = Len(ServedLtvNames)
    /\ Len(ServedChurnNames) # Len(ServedLtvNames)

-----------------------------------------------------------------------------
(* The membership tier in the LTV vector: the dashboard's preprocess_input *)
(* (Ml1/streamlit_app.py) and the service's engine                          *)

CHURN_FEATURES ==
    << "membership_type_id", "has_biometrics", "days_on_platform",
       "days_since_last_login", "days_since_last_run", "runs_last_90_days",
       "distance_last_90_days_km" >>

LTV_FEATURES ==
    << "has_biometrics", "runs_last_90_days", "distance_last_90_days_km",
       "avg_pace_last_90_days", "achievement_count",
       "membership_type_id_1", "membership_type_id_2", "membership_type_id_3" >>

Digits == << "0", "1", "2", "3", "4", "5", "6", "7", "8", "9" >>

(* f'membership_type_id_{i}', and the column get_dummies names after value i *)
DummyName(i) == "membership_type_id_" \o Digits[i + 1]

(* a one-row DataFrame: its columns in order, and the row *)
Frame(columns, row) == [columns |-> columns, row |-> row]

(* df[cols] *)
Columns(df, cols) == Frame(cols, [c \in SeqToSet(cols) |-> df.row[c]])

(* pd.get_dummies(df, columns=[col], drop_first=False) on one row: col is  *)
(* replaced by one indicator column, named after the value, appended last  *)
GetDummies(df, col) ==
    LET kept == SelectSeq(df.columns, LAMBDA c : c # col)
        name == DummyName(df.row[col].n)
    IN  Frame(kept \o << name >>,
              [c \in SeqToSet(kept) \cup {name} |-> IF c = name THEN I(1) ELSE df.row[c]])

(* if col_name not in df_ltv.columns: df_ltv[col_name] = 0 *)
EnsureColumn(df, name) ==
    IF name \in SeqToSet(df.columns) THEN df
    ELSE Frame(df.columns \o << name >>,
               [c \in SeqToSet(df.columns) \cup {name} |-> IF c = name THEN I(0) ELSE df.row[c]])

(* df_ltv[[col for col in LTV_FEATURES if col in df_ltv.columns]] *)
Reorder(df, order) ==
    Columns(df, SelectSeq(order, LAMBDA c : c \in SeqToSet(df.columns)))

AsInt(b) == IF b THEN I(1) ELSE I(0)

preprocess_input(user_input) ==
    LET df == Frame(<< "membership_type_id", "has_biometrics", "runs_last_90_days",
                       "distance_last_90_days_km", "days_since_last_login",
                       "days_since_last_run", "days_on_platform",
                       "avg_pace_last_90_days", "achievement_count" >>,
                    [user_input EXCEPT !["has_biometrics"] = AsInt(user_input.biometrics)])
        picked == Columns(df, << "membership_type_id", "has_biometrics", "runs_last_90_days",
                                 "distance_last_90_days_km", "avg_pace_last_90_days",
                                 "achievement_count" >>)
    IN  [df_churn |-> Columns(df, CHURN_FEATURES),
         df_ltv |-> Reorder(
                      EnsureColumn(EnsureColumn(EnsureColumn(
                            GetDummies(picked, "membership_type_id"),
                            DummyName(1)), DummyName(2)), DummyName(3)),
                      LTV_FEATURES)]

PreprocessInput(user_input) ==
    /\ call' = [op |-> "preprocess_input", arg |-> user_input,
                out |-> preprocess_input(user_input)]
    /\ prev' = [op |-> "none"]
    /\ UNCHANGED <<files, models, scalers, feature_names, model_version, now>>
    /\ UNCHANGED app

MaxTier == 4

Tiers == 0..MaxTier

(* what the sidebar collects, for a tier; biometrics is the checkbox *)
UserInput(tier, biometrics) ==
    [membership_type_id |-> I(tier), biometrics |-> biometrics, has_biometrics |-> I(0),
     runs_last_90_days |-> I(15), distance_last_90_days_km |-> I(150),
     days_since_last_login |-> I(10), days_since_last_run |-> I(10),
     days_on_platform |-> I(300), avg_pace_last_90_days |-> Num(11, 2),
     achievement_count |-> I(8)]

(* the same user as a request to the service *)
TierRecord(tier, biometrics) ==
    Mapping([c \in {"user_id"} \cup (DOMAIN UserInput(tier, biometrics) \ {"biometrics"}) |->
                IF c = "user_id" THEN I(7)
                ELSE IF c = "has_biometrics" THEN AsInt(biometrics)
                ELSE UserInput(tier, biometrics)[c]])

(* artifacts whose LTV model was trained on the one-hot columns *)
OneHotDirectory ==
    [ServedDirectory EXCEPT
        !["ltv_scaler"] = [mean |-> << 0, 10, 100, 5, 4, 0, 0, 0 >>,
                           scale |-> << 1, 5, 50, 1, 2, 1, 1, 1 >>],
        !["ltv_features"] = LTV_FEATURES]

InitOneHot ==
    /\ files \in {OneHotDirectory, ServedDirectory}
    /\ FreshLoader

NextOneHot ==
    \/ LoadAllModels
    \/ Tick
    \/ \E tier \in Tiers, b \in BOOLEAN : PredictLtv(TierRecord(tier, b))
    \/ \E tier \in Tiers, b \in BOOLEAN : PreprocessInput(UserInput(tier, b))

SpecOneHot == InitOneHot /\ [][NextOneHot]_vars

CanonicalDummies == {DummyName(k) : k \in 1..3}

DummiesIn(names) == {c \in SeqToSet(names) : \E k \in 0..9 : c = DummyName(k)}

ColumnValue(names, X, c) == X[CHOOSE i \in DOMAIN names : names[i] = c]

(* the vector X over the columns names holds exactly the three canonical   *)
(* dummy columns, the one of the tier 1 and the others 0                    *)
OneHotOf(names, X, tier) ==
    /\ DummiesIn(names) = CanonicalDummies
    /\ \A k \in 1..3 :
            ColumnValue(names, X, DummyName(k)) = IF tier = I(k) THEN I(1) ELSE I(0)

RowOf(df) == [i \in DOMAIN df.columns |-> df.row[df.columns[i]]]

(* C17: the LTV vector built for a record holds exactly the dummy columns  *)
(* membership_type_id_1, _2, _3, each 0 or 1: the dummy of the record's    *)
(* tier is 1 and the others 0, and all are 0 for a tier outside 1..3       *)
C17_OneHotAligned ==
    /\ (call.op = "predict_ltv" /\ call.out.trace # << >>) =>
            OneHotOf(feature_names["ltv"], call.out.trace[1].arg,
                     call.arg.d["membership_type_id"])
    /\ call.op = "preprocess_input" =>
            OneHotOf(call.out.df_ltv.columns, RowOf(call.out.df_ltv),
                     call.arg["membership_type_id"])

-----------------------------------------------------------------------------
(* The engagement and consistency scores as functions of a row *)

MaxRuns == 46

RunCounts == 0..MaxRuns

Distances == {I(0), I(90), I(450), Num(901, 2), I(750)}

Achievements == {0, 5, 15, 30}

Races == {0, 2, 5, 12}

ScoreRow(runs_30d, runs_90d, distance, achievements, biometrics, races) ==
    [runs_last_30_days |-> I(runs_30d), runs_last_90_days |-> I(runs_90d),
     distance_last_90_days_km |-> distance, achievement_count |-> I(achievements),
     has_biometrics |-> I(biometrics), race_participation_count |-> I(races)]

(* the first row of the module's sample data *)
SampleRow == ScoreRow(15, 45, I(450), 15, 1, 5)

(* rows with non-negative counters and has_biometrics 0 or 1: every        *)
(* engagement input varied around the sample row, and every pair of run    *)
(* counts                                                                   *)
ScoreRows ==
    {ScoreRow(15, r, d, a, b, c) :
        r \in RunCounts, d \in Distances, a \in Achievements, b \in {0, 1}, c \in Races}
    \cup {ScoreRow(r30, r90, I(450), 15, 1, 5) : r30 \in RunCounts, r90 \in RunCounts}

(* a FeatureEngineer and a frame of one row; no loader is involved *)
InitScores ==
    /\ files = ServedDirectory
    /\ models = EmptyDict
    /\ scalers = EmptyDict
    /\ feature_names = EmptyDict
    /\ model_version = "v1.0.0"
    /\ now = 0
    /\ call \in {[op |-> "frame", arg |-> row] : row \in ScoreRows}
    /\ prev = [op |-> "none"]
    /\ model_loader = FALSE
    /\ prediction_engine = FALSE
    /\ got_first_request = FALSE
    /\ frames = [t \in Threads |-> Idle]

(* df_features['engagement_score'] = self._calculate_engagement_score(df_features) *)
CalculateEngagementScore ==
    /\ call' = [op |-> "engagement_score", arg |-> call.arg,
                out |-> calculate_engagement_score(call.arg)]
    /\ UNCHANGED <<files, models, scalers, feature_names, model_version, now, prev>>
    /\ UNCHANGED app

(* df_features['consistency_score'] = self._calculate_consistency_score(...) *)
CalculateConsistencyScore ==
    /\ call' = [op |-> "consistency_score", arg |-> call.arg,
                out |-> calculate_consistency_score(call.arg["runs_last_30_days"],
                                                    call.arg["runs_last_90_days"])]
    /\ UNCHANGED <<files, models, scalers, feature_names, model_version, now, prev>>
    /\ UNCHANGED app

NextScores ==
    \/ CalculateEngagementScore
    \/ CalculateConsistencyScore

SpecScores == InitScores /\ [][NextScores]_vars

(* clip(x / full, 0, 1) in hundredths of the weight w: w * min(x, full) / full *)
Part(w, x, full) == RDiv(RMul(I(w), IF RLt(I(full), x) THEN I(full) ELSE x), I(full))

(* 100 * (0.35 clip(runs/30) + 0.25 clip(distance/500) + 0.20 clip(achievements/20) *)
(*        + 0.10 has_biometrics + 0.10 clip(races/10)), for non-negative inputs     *)
EngagementFormula(row) ==
    RAdd(Part(35, row["runs_last_90_days"], 30),
    RAdd(Part(25, row["distance_last_90_days_km"], 500),
    RAdd(Part(20, row["achievement_count"], 20),
    RAdd(RMul(I(10), row["has_biometrics"]),
         Part(10, row["race_participation_count"], 10)))))

(* x rounded to hundredths: the nearest multiple of 1/100 *)
IsRoundedTo(y, x, P10) ==
    /\ Num(y.n * P10, y.d).d = 1
    /\ RLe(RAbs(RSub(y, x)), Num(1, 2 * P10))

(* C18: for a row of non-negative counters and has_biometrics 0 or 1 the   *)
(* engagement score is the weighted sum of the five clipped components      *)
(* times 100, rounded to 2 decimals, and lies in [0, 100]                   *)
C18_EngagementFormula ==
    call.op = "engagement_score" =>
        /\ IsRoundedTo(call.out, EngagementFormula(call.arg), 100)
        /\ RLe(I(0), call.out)
        /\ RLe(call.out, I(100))

(* a score with a run count above 30, clipped: 35 + 4.5 + 5 + 0 + 2 *)
C18_Witness ==
    /\ call.op = "engagement_score"
    /\ call.arg["runs_last_90_days"] = I(40)
    /\ call.arg["distance_last_90_days_km"] = I(90)
    /\ call.arg["achievement_count"] = I(5)
    /\ call.arg["has_biometrics"] = I(0)
    /\ call.arg["race_participation_count"] = I(2)
    /\ call.out = Num(93, 2)

IsExample(row) ==
    /\ row["runs_last_90_days"] = I(45)
    /\ row["distance_last_90_days_km"] = I(450)
    /\ row["achievement_count"] = I(15)
    /\ row["has_biometrics"] = I(1)
    /\ row["race_participation_count"] = I(5)

(* C19 as stated: the engagement score of the example record (45 runs,      *)
(* 450 km, 15 achievements, biometrics, 5 races) is 79.00                   *)
C19_ExampleIs79 ==
    (call.op = "engagement_score" /\ IsExample(call.arg)) => call.out = I(79)

(* C19: the engagement score of the example record (45 runs, 450 km,       *)
(* 15 achievements, biometrics, 5 races) is 87.50                           *)
C19_ExampleIs8750 ==
    (call.op = "engagement_score" /\ IsExample(call.arg)) => call.out = Num(175, 2)

(* the score of the example record has been computed *)
C19_Witness ==
    /\ call.op = "engagement_score"
    /\ IsExample(call.arg)
    /\ call.arg["runs_last_30_days"] = I(15)

(* 1 - |runs_30d - runs_90d/3| / (runs_90d/3) on integers, times runs_90d: *)
(* runs_90d - |3 runs_30d - runs_90d|                                       *)
ConsistencyFormula(r30, r90) ==
    IF r90 = 0 THEN I(0)
    ELSE IF r90 - Abs(3 * r30 - r90) < 0 THEN I(0)
    ELSE Num(r90 - Abs(3 * r30 - r90), r90)

(* C20: for non-negative run counts the consistency score is               *)
(* clip(1 - |runs_30d - runs_90d/3| / (runs_90d/3), 0, 1) rounded to 4     *)
(* decimals when runs_90d > 0 and 0 when runs_90d = 0; it lies in [0, 1],  *)
(* is 0 whenever runs_30d >= 2 runs_90d / 3, and is 1 for 15 and 45        *)
C20_ConsistencyScore ==
    call.op = "consistency_score" =>
        LET r30 == call.arg["runs_last_30_days"].n
            r90 == call.arg["runs_last_90_days"].n
        IN  /\ IsRoundedTo(call.out, ConsistencyFormula(r30, r90), 10000)
            /\ r90 = 0 => call.out = I(0)
            /\ RLe(I(0), call.out)
            /\ RLe(call.out, I(1))
            /\ 3 * r30 >= 2 * r90 => call.out = I(0)
            /\ (r30 = 15 /\ r90 = 45) => call.out = I(1)

(* a score that needed rounding: 10 runs in 30 days, 44 in 90 days, 0.6818 *)
C20_Witness ==
    /\ call.op = "consistency_score"
    /\ call.arg["runs_last_30_days"] = I(10)
    /\ call.arg["runs_last_90_days"] = I(44)
    /\ call.out = Num(6818, 10000)

-----------------------------------------------------------------------------
(* calculate_all_features on one row *)

MaxSessions == 52

SessionCounts == 0..MaxSessions

DayCounts == {0, 1, 15, 29, 30, 31, 45, 365}

RecencyCounts == {0, 1, 10, 30, 400}

Paces == {I(0), Num(1, 2), I(5), Num(11, 2), I(6), Num(13, 2), I(7), Num(15, 2), I(8),
          Num(17, 2), I(12)}

(* a row of the frame: the first sample user, with the four given columns *)
DeriveRow(sessions, days_on_platform, days_since_last_run, pace) ==
    [c \in ColumnsRead |->
        CASE c = "running_sessions_count" -> I(sessions)
          [] c = "days_on_platform" -> I(days_on_platform)
          [] c = "days_since_last_run" -> I(days_since_last_run)
          [] c = "avg_pace_min_per_km" -> pace
          [] c = "runs_last_90_days" -> I(45)
          [] c = "runs_last_30_days" -> I(15)
          [] c = "distance_last_90_days_km" -> I(450)
          [] c = "distance_last_30_days_km" -> I(150)
          [] c = "achievement_count" -> I(15)
          [] c = "has_biometrics" -> I(1)
          [] c = "race_participation_count" -> I(5)
          [] c = "membership_type_id" -> I(2)]

(* the third sample user: no run, no pace *)
ThirdSampleRow ==
    [c \in ColumnsRead |->
        CASE c = "running_sessions_count" -> I(2)
          [] c = "days_on_platform" -> I(90)
          [] c = "days_since_last_run" -> I(90)
          [] c = "avg_pace_min_per_km" -> I(0)
          [] c = "runs_last_90_days" -> I(2)
          [] c = "runs_last_30_days" -> I(0)
          [] c = "distance_last_90_days_km" -> I(20)
          [] c = "distance_last_30_days_km" -> I(0)
          [] c = "achievement_count" -> I(0)
          [] c = "has_biometrics" -> I(0)
          [] c = "race_participation_count" -> I(0)
          [] c = "membership_type_id" -> I(1)]

DeriveRows ==
    {DeriveRow(n, d, 1, I(6)) : n \in SessionCounts, d \in DayCounts}
    \cup {DeriveRow(50, d, r, I(6)) : d \in DayCounts, r \in RecencyCounts}
    \cup {DeriveRow(50, 365, 1, p) : p \in Paces}
    \cup {ThirdSampleRow}

InitDerive ==
    /\ files = ServedDirectory
    /\ models = EmptyDict
    /\ scalers = EmptyDict
    /\ feature_names = EmptyDict
    /\ model_version = "v1.0.0"
    /\ now = 0
    /\ call \in {[op |-> "frame", arg |-> row] : row \in DeriveRows}
    /\ prev = [op |-> "none"]
    /\ model_loader = FALSE
    /\ prediction_engine = FALSE
    /\ got_first_request = FALSE
    /\ frames = [t \in Threads |-> Idle]

(* df_with_features = engineer.calculate_all_features(df) *)
CalculateAllFeatures ==
    /\ call' = [op |-> "calculate_all_features", arg |-> call.arg,
                exc |-> CalcRaises(call.arg),
                out |-> IF CalcRaises(call.arg) # "" THEN call.arg
                        ELSE calculate_all_features(call.arg)]
    /\ UNCHANGED <<files, models, scalers, feature_names, model_version, now, prev>>
    /\ UNCHANGED app

NextDerive == CalculateAllFeatures

SpecDerive == InitDerive /\ [][NextDerive]_vars

(* calculate_all_features returned a frame with the derived columns *)
Derived == call.op = "calculate_all_features" /\ call.exc = ""

(* C21: monthly_activity_rate is                                            *)
(* clip(running_sessions_count / max(days_on_platform / 30, 1), 0, 50),    *)
(* also for 1..29 days on the platform                                      *)
C21_MonthlyActivityRate ==
    Derived =>
        LET n == call.arg["running_sessions_count"].n
            d == call.arg["days_on_platform"].n
            months == IF d < 30 THEN I(1) ELSE Num(d, 30)
            rate == RDiv(I(n), months)
        IN  call.out["monthly_activity_rate"] =
                IF RLt(I(50), rate) THEN I(50) ELSE rate

(* C22: days_inactive_ratio is                                              *)
(* clip(days_since_last_run / max(days_on_platform, 1), 0, 1); it lies in  *)
(* [0, 1], and a platform age of 0 days is divided by as 1                  *)
C22_InactivityRatio ==
    Derived =>
        LET r == call.arg["days_since_last_run"].n
            d == call.arg["days_on_platform"].n
            den == IF d < 1 THEN 1 ELSE d
        IN  /\ call.out["days_inactive_ratio"] = IF r > den THEN I(1) ELSE Num(r, den)
            /\ RLe(I(0), call.out["days_inactive_ratio"])
            /\ RLe(call.out["days_inactive_ratio"], I(1))

(* a user seen 10 days ago whose platform age is 0 days: the ratio is 1 *)
C22_Witness ==
    /\ Derived
    /\ call.arg["days_on_platform"] = I(0)
    /\ call.arg["days_since_last_run"] = I(10)
    /\ call.out["days_inactive_ratio"] = I(1)

(* C23: activity_level is 0 for no session, 1 for 1..5, 2 for 6..20, 3 for *)
(* 21..50 and 4 above 50 sessions                                           *)
C23_ActivityLevel ==
    Derived =>
        LET n == call.arg["running_sessions_count"].n
        IN  call.out["activity_level"] =
                I(IF n = 0 THEN 0
                  ELSE IF n <= 5 THEN 1
                  ELSE IF n <= 20 THEN 2
                  ELSE IF n <= 50 THEN 3
                  ELSE 4)

(* 50 sessions, an upper bin edge: level 3 *)
C23_Witness ==
    /\ Derived
    /\ call.arg["running_sessions_count"] = I(50)
    /\ call.out["activity_level"] = I(3)

(* C24: for a pace above 0, pace_category is 4 up to 5 min/km, 3 up to 6,  *)
(* 2 up to 7, 1 up to 8 and 0 above 8                                       *)
C24_PaceCategory ==
    (Derived /\ RLt(I(0), call.arg["avg_pace_min_per_km"])) =>
        LET p == call.arg["avg_pace_min_per_km"]
        IN  call.out["pace_category"] =
                I(IF RLe(p, I(5)) THEN 4
                  ELSE IF RLe(p, I(6)) THEN 3
                  ELSE IF RLe(p, I(7)) THEN 2
                  ELSE IF RLe(p, I(8)) THEN 1
                  ELSE 0)

(* a pace of 6.5 min/km: category 2 *)
C24_Witness ==
    /\ Derived
    /\ call.arg["avg_pace_min_per_km"] = Num(13, 2)
    /\ call.out["pace_category"] = I(2)

(* C25: calculate_all_features does not raise on a row of non-negative     *)
(* numbers, a pace of 0 included, and defines the eight derived columns     *)
C25_DerivationTotal ==
    call.op = "calculate_all_features" =>
        /\ call.exc = ""
        /\ SeqToSet(DerivedColumns) \subseteq DOMAIN call.out
        /\ \A c \in SeqToSet(DerivedColumns) : IsNum(call.out[c])

-----------------------------------------------------------------------------
(* The order of scaling and inference *)

(* the vector X standardized with the fitted mean and scale, over one      *)
(* denominator: (n - mean d) / (d scale)                                    *)
Standardized(scaler, X) ==
    [i \in DOMAIN X |->
        IF IsNaN(X[i]) THEN X[i]
        ELSE Num(X[i].n - scaler.mean[i] * X[i].d, X[i].d * scaler.scale[i])]

(* C26: in predict_churn and predict_ltv every estimator call comes after  *)
(* scaler.transform on the aligned vector and receives that vector         *)
(* standardized, never the aligned vector itself; the only scaler call is  *)
(* transform, and the scaler stays the one that was loaded                  *)
C26_ScaleBeforeInfer ==
    call.op \in SingleOps =>
        /\ \A i \in DOMAIN call.out.trace : call.out.trace[i].fn \in LibraryCalls
        /\ \A i \in DOMAIN call.out.trace :
            call.out.trace[i].fn \in {"predict", "predict_proba"} =>
                /\ i > 1
                /\ call.out.trace[1].fn = "transform"
                /\ call.out.trace[1].arg =
                        AlignTo(feature_names[TypeOf(call.op)], call.arg.d)
                /\ call.out.trace[i].arg =
                        Standardized(scalers[TypeOf(call.op)], call.out.trace[1].arg)
        /\ Loaded(scalers, TypeOf(call.op)) =>
                scalers[TypeOf(call.op)] = files[TypeOf(call.op) \o "_scaler"]

(* an LTV prediction that returned: the estimator got a vector that differs *)
(* from the aligned one                                                      *)
C26_Witness ==
    /\ call.op = "predict_ltv"
    /\ ~call.out.raised
    /\ Len(call.out.trace) = 2
    /\ call.out.trace[2].fn = "predict"
    /\ call.out.trace[2].arg # call.out.trace[1].arg

-----------------------------------------------------------------------------
(* Batches on the loaded engine *)

BatchUsers == {GoodRec, BadRunsRec, BadTierRec, NullRec, NoIdRec, EmptyBody}

NextBatch ==
    \/ \E recs \in SeqsUpTo(BatchUsers, MaxBatch) : PredictBatch(recs)
    \/ Tick

SpecBatch == InitConcurrent /\ [][NextBatch]_vars

(* C27: for every record predict_batch processes, both predict_churn and   *)
(* predict_ltv are invoked, predict_ltv also when predict_churn raised      *)
C27_IndependentInvocation ==
    call.op = "predict_batch" =>
        \A i \in DOMAIN call.out.invoked :
            call.out.invoked[i] = << "predict_churn", "predict_ltv" >>

-----------------------------------------------------------------------------
(* /models/info *)

InfoRequest == IsRequest /\ call.endpoint = "/models/info"

(* C28 as stated: while load_all_models has not succeeded, /models/info    *)
(* answers 'Models not loaded' with status 503                              *)
C28_InfoAnswers503 ==
    (InfoRequest /\ ~LoadSucceeded) =>
        /\ call.status = 503
        /\ call.payload = [error |-> "Models not loaded"]

(* C28 amended: while load_all_models has not succeeded, /models/info is   *)
(* answered with an error status (500 when initialize raised, 503 from the *)
(* handler) and reports no loaded model types and no feature counts; it    *)
(* describes the loader only after a successful load                        *)
C28_InfoRefused ==
    InfoRequest =>
        /\ ~LoadSucceeded =>
            /\ call.status \in {500, 503}
            /\ DOMAIN call.payload = {"error"}
        /\ call.status = 200 =>
            /\ LoadSucceeded
            /\ call.payload.models_loaded = ModelTypes

(* /models/info asked of an application whose loader holds the churn       *)
(* artifacts but whose load failed                                          *)
C28_Witness ==
    /\ InfoRequest
    /\ model_loader
    /\ ~prediction_engine
    /\ Loaded(models, "churn")
    /\ ~LoadAllReturns(files)
    /\ call.status = 500

-----------------------------------------------------------------------------
(* Reported fields against reported buckets *)

(* C29: in every result of predict_churn, risk_level is HIGH iff the       *)
(* returned probability field (the model probability rounded to 4          *)
(* decimals) is >= 0.7, MEDIUM iff it is >= 0.4 and < 0.7, LOW iff it is   *)
(* < 0.4                                                                    *)
C29_RiskAgreesWithReported ==
    ChurnReturned =>
        LET p == call.out.result.probability
            risk == call.out.result.risk_level
        IN  /\ risk = "HIGH" <=> RLe(Num(7, 10), p)
            /\ risk = "MEDIUM" <=> (RLe(Num(4, 10), p) /\ RLt(p, Num(7, 10)))
            /\ risk = "LOW" <=> RLt(p, Num(4, 10))

(* C30: in every result of predict_ltv, ltv_category is ZERO iff the       *)
(* returned ltv_value field (the clamped value rounded to 2 decimals) is   *)
(* 0, HIGH iff it is >= 500, MEDIUM iff it is >= 200 and < 500, LOW iff it *)
(* is > 0 and < 200                                                         *)
C30_CategoryAgreesWithReported ==
    LtvReturned =>
        LET value == call.out.result.ltv_value
            cat == call.out.result.ltv_category
        IN  /\ cat = "ZERO" <=> value = I(0)
            /\ cat = "HIGH" <=> RLe(I(500), value)
            /\ cat = "MEDIUM" <=> (RLe(I(200), value) /\ RLt(value, I(500)))
            /\ cat = "LOW" <=> (RLt(I(0), value) /\ RLt(value, I(200)))

====
